---- MODULE Spec2Model ----
(***************************************************************************)
(* Job lifecycle of the AriaHost pricing worker (worker/main.py,           *)
(* worker/core/db.py, worker/core/cache.py) and the day-by-day sampling    *)
(* pipeline (worker/scraper/day_query.py, worker/scraper/price_estimator). *)
(*                                                                         *)
(* Spec     : workers polling one shared job store and cache store.       *)
(* SpecDays : one scrape pass over a date window, night by night.         *)
(* SpecPoll : the poll loop with its backoff, process_job as one step.    *)
(* SpecEntry: the collaborator calls at the entry of the two modes.       *)
(* SpecKey, SpecDiscount, SpecSample, SpecInterp, SpecMedian, SpecTime,   *)
(* SpecDynamic, SpecStage, SpecStay:                                      *)
(*            one call of a pure function, inputs drawn in Init.          *)
(*                                                                         *)
(* Modelling decisions:                                                    *)
(*  - time is abstract: a running job may become stale at any moment       *)
(*    (GoStale), a cache entry may expire at any moment (CacheExpire);     *)
(*  - store calls issued by process_job reach the store and do not raise;  *)
(*  - a claim token is a fresh number (uuid4 in the code);                 *)
(*  - a date is a day ordinal (date.toordinal()), Monday = 0 mod 7.        *)
(***************************************************************************)
EXTENDS Integers, Sequences, FiniteSets, TLC

\* ---- bounds of the model -------------------------------------------------
NumWorkers == 2
NumJobs == 1
MaxClaims == 5

\* ---- program constants ---------------------------------------------------
MAX_ATTEMPTS == 3
POLL_SECONDS == 5
MAX_NIGHTS == 30
SAMPLE_THRESHOLD == 14
MAX_SAMPLE_QUERIES == 20
PER_DAY_MAX_RETRIES == 2

Workers == 1..NumWorkers
Jobs == 1..NumJobs
NoToken == 0

VARIABLES
    jobs,      \* job store: one row per job (pricing_reports)
    input,     \* per job: the immutable request inputs
    cache,     \* cache store: one entry per fingerprint (pricing_cache)
    tokenSeq,  \* number of claim tokens handed out so far
    pc,        \* per worker: position in main() / process_job()
    cur,       \* per worker: the claimed row (job id, token, attempts)
    backoff,   \* per worker: poll backoff, in 1/64 second
    hb,        \* per worker: the heartbeat thread of the running process_job
    orphans,   \* per worker: heartbeat threads that outlived their process_job
    run,       \* per worker: what the current process_job has done so far
    lastOp,    \* the store operation issued by the last step
    dq,        \* state of one scrape pass (SpecDays)
    fx         \* the call under study in the function-level specifications

lifeVars == <<jobs, input, cache, tokenSeq, pc, cur, backoff, hb, orphans, run, lastOp>>
vars == <<jobs, input, cache, tokenSeq, pc, cur, backoff, hb, orphans, run, lastOp, dq, fx>>

\* ==========================================================================
\* Job store (worker/core/db.py)
\* ==========================================================================

Terminal == {"ready", "error"}

\* claim_pricing_report RPC: a job is eligible when queued, or running with a
\* heartbeat older than the staleness threshold.
Eligible(row) ==
    \/ row.status = "queued"
    \/ row.status = "running" /\ ~row.fresh

\* claim_pricing_report RPC: stamp the token, count the attempt, refresh the
\* heartbeat, mark running.
ClaimRpc(js, j, tok) ==
    [js EXCEPT ![j] = [@ EXCEPT !.status = "running",
                                !.token = tok,
                                !.attempts = @ + 1,
                                !.fresh = TRUE]]

\* heartbeat_pricing_report RPC: TRUE iff the token still owns the job.
HeartbeatOk(js, j, tok) == js[j].token = tok

\* heartbeat_pricing_report RPC: refresh heartbeat_at under the token.
HeartbeatRpc(js, j, tok) ==
    IF HeartbeatOk(js, j, tok)
    THEN [js EXCEPT ![j] = [@ EXCEPT !.fresh = TRUE]]
    ELSE js

\* complete_job: update ... where id = report_id and worker_claim_token = token
CompleteJobUpdate(js, j, tok, summary) ==
    [js EXCEPT ![j] = IF @.token = tok
                      THEN [@ EXCEPT !.status = "ready",
                                     !.summary = summary,
                                     !.error = "none"]
                      ELSE @]

\* a fail_job that forgets the token condition
FailJobUpdate_NoToken(js, j, tok, msg) ==
    [js EXCEPT ![j] = [@ EXCEPT !.status = "error", !.error = msg]]

\* a fail_job that re-queues the job instead of ending it
FailJobUpdate_Requeue(js, j, tok, msg) ==
    [js EXCEPT ![j] = IF @.token = tok
                      THEN [@ EXCEPT !.status = "queued", !.error = msg]
                      ELSE @]

\* fail_job: update ... where id = report_id and worker_claim_token = token
FailJobUpdate(js, j, tok, msg) ==
    [js EXCEPT ![j] = IF @.token = tok
                      THEN [@ EXCEPT !.status = "error", !.error = msg]
                      ELSE @]

\* keyword parameters complete_job declares
CompleteJobParams == {"summary", "calendar", "core_version", "debug"}

\* keywords process_job passes to complete_job (both call sites)
CompleteJobKwargs ==
    {"summary", "calendar", "core_version", "debug", "input_attributes"}

\* Python call binding: an unexpected keyword raises TypeError before the
\* callee's body runs.
BindsOk(kwargs, params) == kwargs \subseteq params

\* ==========================================================================
\* Cache store (worker/core/cache.py)
\* ==========================================================================

NoEntry == [state |-> "none", summary |-> "none"]

\* get_cached: the entry, only when expires_at > now; otherwise None
GetCached(c, k) == IF c[k].state = "valid" THEN c[k].summary ELSE "none"

\* set_cached: upsert on cache_key with a fresh TTL; no token is involved
SetCached(c, k, summary) ==
    [c EXCEPT ![k] = [state |-> "valid", summary |-> summary]]

\* compute_cache_key / job["cache_key"]: one fingerprint per job
CacheKey(j) == j


\* ==========================================================================
\* Worker: main() poll loop and process_job (worker/main.py)
\* ==========================================================================

BasePoll == POLL_SECONDS * 64
MaxBackoff == BasePoll * 12

Min(a, b) == IF a < b THEN a ELSE b
Max(a, b) == IF a > b THEN a ELSE b

NoHb == [state |-> "none", job |-> 0, token |-> NoToken, stop |-> FALSE]
NoOp == [kind |-> "none", job |-> 0, token |-> NoToken, worker |-> 0, wait |-> 0]
NoCur == [job |-> 0, token |-> NoToken, attempts |-> 0]
NoRun == [lookups |-> 0, queries |-> 0, termWrites |-> 0, cacheWrites |-> 0,
          cacheHit |-> FALSE, result |-> "none", failMsg |-> "none",
          raised |-> "none"]

Op(kind, j, tok) ==
    [kind |-> kind, job |-> j, token |-> tok, worker |-> 0, wait |-> 0]

\* a step of the poll loop of worker w that slept for `wait`
PollOp(kind, w, wait) ==
    [kind |-> kind, job |-> 0, token |-> NoToken, worker |-> w, wait |-> wait]

\* the request shapes a job row can carry: listing URL present or not, and
\* the inputMode attribute (absent means "criteria")
JobInputs ==
    { [url |-> TRUE,  inputMode |-> "url"],
      [url |-> TRUE,  inputMode |-> "criteria"],
      [url |-> FALSE, inputMode |-> "criteria"],
      [url |-> FALSE, inputMode |-> "url"] }

\* what the cache table may hold for a fingerprint when the worker starts
CacheStates ==
    { NoEntry,
      [state |-> "valid",   summary |-> "cached"],
      [state |-> "expired", summary |-> "cached"] }

\* state of the scrape pass while the lifecycle specification runs
DqIdle == [phase |-> "idle"]

\* no function call under study
FxIdle == [fn |-> "none"]

Init ==
    /\ input \in [Jobs -> JobInputs]
    /\ jobs = [j \in Jobs |-> [status |-> "queued", token |-> NoToken,
                               attempts |-> 0, fresh |-> FALSE,
                               summary |-> "none", error |-> "none"]]
    /\ cache \in [Jobs -> CacheStates]
    /\ tokenSeq = 0
    /\ pc = [w \in Workers |-> "poll"]
    /\ cur = [w \in Workers |-> NoCur]
    /\ backoff = [w \in Workers |-> BasePoll]
    /\ hb = [w \in Workers |-> NoHb]
    /\ orphans = [w \in Workers |-> {}]
    /\ run = [w \in Workers |-> NoRun]
    /\ lastOp = NoOp
    /\ dq = DqIdle
    /\ fx = FxIdle

\* _should_bypass_precache_for_url_mode
ShouldBypassPrecache(inputMode, hasUrl) == inputMode = "url" /\ hasUrl

\* main(): claim_job returned a row; reset the backoff
Claim(w, j) ==
    /\ pc[w] = "poll"
    /\ tokenSeq < MaxClaims
    /\ Eligible(jobs[j])
    /\ LET tok == tokenSeq + 1
           js == ClaimRpc(jobs, j, tok)
       IN /\ jobs' = js
          /\ tokenSeq' = tok
          /\ cur' = [cur EXCEPT ![w] = [job |-> j, token |-> tok,
                                        attempts |-> js[j].attempts]]
          /\ lastOp' = Op("claim", j, tok)
    /\ backoff' = [backoff EXCEPT ![w] = BasePoll]
    /\ pc' = [pc EXCEPT ![w] = "claimed"]
    /\ UNCHANGED <<input, cache, hb, orphans, run, dq, fx>>

\* main(): attempts > MAX_ATTEMPTS: fail the job and go on polling
AttemptsExceeded(w) ==
    /\ pc[w] = "claimed"
    /\ cur[w].attempts > MAX_ATTEMPTS
    /\ jobs' = FailJobUpdate(jobs, cur[w].job, cur[w].token, "max_attempts")
    /\ lastOp' = Op("fail_job", cur[w].job, cur[w].token)
    /\ pc' = [pc EXCEPT ![w] = "poll"]
    /\ cur' = [cur EXCEPT ![w] = NoCur]
    /\ UNCHANGED <<input, cache, tokenSeq, backoff, hb, orphans, run, dq, fx>>

\* a main() that hands every claimed job to process_job
StartProcess_NoAttemptCheck(w) ==
    /\ pc[w] = "claimed"
    /\ hb' = [hb EXCEPT ![w] = [state |-> "waiting", job |-> cur[w].job,
                                token |-> cur[w].token, stop |-> FALSE]]
    /\ lastOp' = NoOp
    /\ pc' = [pc EXCEPT ![w] = "precheck"]
    /\ UNCHANGED <<jobs, input, cache, tokenSeq, cur, backoff, orphans, run, dq, fx>>

\* main() -> process_job: start the heartbeat thread, enter the try block
StartProcess(w) ==
    /\ pc[w] = "claimed"
    /\ ~(cur[w].attempts > MAX_ATTEMPTS)
    /\ hb' = [hb EXCEPT ![w] = [state |-> "waiting", job |-> cur[w].job,
                                token |-> cur[w].token, stop |-> FALSE]]
    /\ lastOp' = NoOp
    /\ pc' = [pc EXCEPT ![w] = "precheck"]
    /\ UNCHANGED <<jobs, input, cache, tokenSeq, cur, backoff, orphans, run, dq, fx>>

\* process_job: cache pre-check, bypassed in URL mode
PreCheck(w) ==
    /\ pc[w] = "precheck"
    /\ LET j == cur[w].job
           bypass == ShouldBypassPrecache(input[j].inputMode, input[j].url)
           cached == IF bypass THEN "none" ELSE GetCached(cache, CacheKey(j))
       IN /\ run' = [run EXCEPT ![w].lookups = IF bypass THEN @ ELSE @ + 1,
                                ![w].cacheHit = cached # "none",
                                ![w].result = cached]
          /\ lastOp' = IF bypass THEN NoOp ELSE Op("get_cached", j, NoToken)
          /\ pc' = [pc EXCEPT ![w] = IF cached # "none" THEN "cache_complete"
                                     ELSE "pipeline"]
    /\ UNCHANGED <<jobs, input, cache, tokenSeq, cur, backoff, hb, orphans, dq, fx>>

\* process_job: cache hit: complete_job(..., input_attributes=...) and return
CacheComplete(w) ==
    /\ pc[w] = "cache_complete"
    /\ IF BindsOk(CompleteJobKwargs, CompleteJobParams)
       THEN /\ jobs' = CompleteJobUpdate(jobs, cur[w].job, cur[w].token,
                                         run[w].result)
            /\ lastOp' = Op("complete_job", cur[w].job, cur[w].token)
            /\ run' = [run EXCEPT ![w].termWrites = @ + 1]
            /\ pc' = [pc EXCEPT ![w] = "finally"]
       ELSE /\ lastOp' = NoOp
            /\ run' = [run EXCEPT ![w].raised = "TypeError"]
            /\ pc' = [pc EXCEPT ![w] = "except"]
            /\ UNCHANGED jobs
    /\ UNCHANGED <<input, cache, tokenSeq, cur, backoff, hb, orphans, dq, fx>>

\* what run_scrape / run_criteria_search hand back to process_job: "priced"
\* is a list of daily results in which at least one night has a price (other
\* nights may carry the interpolated / missing_data flags), "no_prices" is an
\* empty list or one without any price, the other two are exceptions
PipelineOutcomes == {"priced", "no_prices", "value_error", "error"}

\* process_job: the user-facing message of each failing branch
FailMessage(outcome) ==
    CASE outcome = "value_error" -> "invalid_range"
      [] outcome = "error" -> "busy_error"
      [] outcome = "no_input" -> "no_input"
      [] OTHER -> "busy_no_data"

\* process_job: Mode A (URL scrape) / Mode B (criteria search) / neither
Pipeline(w) ==
    /\ pc[w] = "pipeline"
    /\ LET j == cur[w].job
       IN IF input[j].url \/ input[j].inputMode = "criteria"
          THEN \E outcome \in PipelineOutcomes :
                  IF outcome = "priced"
                  THEN /\ run' = [run EXCEPT ![w].queries = @ + 1,
                                             ![w].result = outcome]
                       /\ pc' = [pc EXCEPT ![w] = "finalize"]
                  ELSE /\ run' = [run EXCEPT ![w].queries = @ + 1,
                                             ![w].failMsg = FailMessage(outcome)]
                       /\ pc' = [pc EXCEPT ![w] = "fail"]
          ELSE /\ run' = [run EXCEPT ![w].failMsg = FailMessage("no_input")]
               /\ pc' = [pc EXCEPT ![w] = "fail"]
    /\ lastOp' = NoOp
    /\ UNCHANGED <<jobs, input, cache, tokenSeq, cur, backoff, hb, orphans, dq, fx>>

\* a _fail that also stores what the run has in hand in the cache
Fail_RefreshesCache(w) ==
    /\ pc[w] = "fail"
    /\ jobs' = FailJobUpdate(jobs, cur[w].job, cur[w].token, run[w].failMsg)
    /\ cache' = SetCached(cache, CacheKey(cur[w].job), run[w].result)
    /\ lastOp' = Op("fail_job", cur[w].job, cur[w].token)
    /\ run' = [run EXCEPT ![w].termWrites = @ + 1,
                          ![w].cacheWrites = @ + 1]
    /\ pc' = [pc EXCEPT ![w] = "finally"]
    /\ UNCHANGED <<input, tokenSeq, cur, backoff, hb, orphans, dq, fx>>

\* process_job._fail: fail_job with the claim token, then return
Fail(w) ==
    /\ pc[w] = "fail"
    /\ jobs' = FailJobUpdate(jobs, cur[w].job, cur[w].token, run[w].failMsg)
    /\ lastOp' = Op("fail_job", cur[w].job, cur[w].token)
    /\ run' = [run EXCEPT ![w].termWrites = @ + 1]
    /\ pc' = [pc EXCEPT ![w] = "finally"]
    /\ UNCHANGED <<input, cache, tokenSeq, cur, backoff, hb, orphans, dq, fx>>

\* process_job: write results (complete_job with input_attributes=...), then
\* store the enriched summary in the cache
Finalize(w) ==
    /\ pc[w] = "finalize"
    /\ IF BindsOk(CompleteJobKwargs, CompleteJobParams)
       THEN /\ jobs' = CompleteJobUpdate(jobs, cur[w].job, cur[w].token,
                                         run[w].result)
            /\ cache' = SetCached(cache, CacheKey(cur[w].job), run[w].result)
            /\ lastOp' = Op("complete_job", cur[w].job, cur[w].token)
            /\ run' = [run EXCEPT ![w].termWrites = @ + 1,
                                  ![w].cacheWrites = @ + 1]
            /\ pc' = [pc EXCEPT ![w] = "finally"]
       ELSE /\ lastOp' = NoOp
            /\ run' = [run EXCEPT ![w].raised = "TypeError"]
            /\ pc' = [pc EXCEPT ![w] = "except"]
            /\ UNCHANGED <<jobs, cache>>
    /\ UNCHANGED <<input, tokenSeq, cur, backoff, hb, orphans, dq, fx>>

\* process_job: an exception raised in the try block outside the pipeline
\* calls (reading the job row, building the debug payload)
Unexpected(w) ==
    /\ pc[w] \in {"precheck", "finalize"}
    /\ lastOp' = NoOp
    /\ run' = [run EXCEPT ![w].raised = "Exception"]
    /\ pc' = [pc EXCEPT ![w] = "except"]
    /\ UNCHANGED <<jobs, input, cache, tokenSeq, cur, backoff, hb, orphans, dq, fx>>

\* an outer handler that only logs
Except_LogOnly(w) ==
    /\ pc[w] = "except"
    /\ lastOp' = NoOp
    /\ pc' = [pc EXCEPT ![w] = "finally"]
    /\ UNCHANGED <<jobs, input, cache, tokenSeq, cur, backoff, hb, orphans, run, dq, fx>>

\* process_job: except Exception: fail_job with the generic message
Except(w) ==
    /\ pc[w] = "except"
    /\ jobs' = FailJobUpdate(jobs, cur[w].job, cur[w].token, "generic")
    /\ lastOp' = Op("fail_job", cur[w].job, cur[w].token)
    /\ run' = [run EXCEPT ![w].termWrites = @ + 1]
    /\ pc' = [pc EXCEPT ![w] = "finally"]
    /\ UNCHANGED <<input, cache, tokenSeq, cur, backoff, hb, orphans, dq, fx>>

\* process_job: finally: hb_stop.set(); a thread waiting on the event wakes,
\* sees the flag and leaves its loop
Finally(w) ==
    /\ pc[w] = "finally"
    /\ hb' = [hb EXCEPT ![w] = [@ EXCEPT !.stop = TRUE,
                                         !.state = IF @ = "waiting" THEN "done"
                                                   ELSE @]]
    /\ lastOp' = NoOp
    /\ pc' = [pc EXCEPT ![w] = "join"]
    /\ UNCHANGED <<jobs, input, cache, tokenSeq, cur, backoff, orphans, run, dq, fx>>

\* process_job: hb_thread.join(timeout=5) returns because the thread ended
JoinDone(w) ==
    /\ pc[w] = "join"
    /\ hb[w].state = "done"
    /\ hb' = [hb EXCEPT ![w] = NoHb]
    /\ lastOp' = NoOp
    /\ pc' = [pc EXCEPT ![w] = "poll"]
    /\ cur' = [cur EXCEPT ![w] = NoCur]
    /\ run' = [run EXCEPT ![w] = NoRun]
    /\ UNCHANGED <<jobs, input, cache, tokenSeq, backoff, orphans, dq, fx>>

\* process_job: hb_thread.join(timeout=5) gives up while the thread is still
\* inside the heartbeat RPC; process_job returns, the daemon thread lives on
JoinTimeout(w) ==
    /\ pc[w] = "join"
    /\ hb[w].state = "calling"
    /\ orphans' = [orphans EXCEPT ![w] = @ \cup {[job |-> hb[w].job,
                                                  token |-> hb[w].token]}]
    /\ hb' = [hb EXCEPT ![w] = NoHb]
    /\ lastOp' = NoOp
    /\ pc' = [pc EXCEPT ![w] = "poll"]
    /\ cur' = [cur EXCEPT ![w] = NoCur]
    /\ run' = [run EXCEPT ![w] = NoRun]
    /\ UNCHANGED <<jobs, input, cache, tokenSeq, backoff, dq, fx>>

\* _run_heartbeat: stop_event.wait(HEARTBEAT_SECONDS) ran out, flag not set
HbTick(w) ==
    /\ hb[w].state = "waiting"
    /\ ~hb[w].stop
    /\ hb' = [hb EXCEPT ![w].state = "calling"]
    /\ lastOp' = NoOp
    /\ UNCHANGED <<jobs, input, cache, tokenSeq, pc, cur, backoff, orphans, run, dq, fx>>

\* _run_heartbeat: the heartbeat RPC; a rejected token ends the loop, and so
\* does the stop flag at the next loop test
HbSend(w) ==
    /\ hb[w].state = "calling"
    /\ jobs' = HeartbeatRpc(jobs, hb[w].job, hb[w].token)
    /\ lastOp' = Op("heartbeat", hb[w].job, hb[w].token)
    /\ hb' = [hb EXCEPT ![w].state =
                 IF ~HeartbeatOk(jobs, hb[w].job, hb[w].token) \/ hb[w].stop
                 THEN "done" ELSE "waiting"]
    /\ UNCHANGED <<input, cache, tokenSeq, pc, cur, backoff, orphans, run, dq, fx>>

\* _run_heartbeat in a thread whose process_job has returned: the RPC in
\* flight completes, the loop test sees the stop flag, the thread ends
OrphanSend(w, o) ==
    /\ o \in orphans[w]
    /\ jobs' = HeartbeatRpc(jobs, o.job, o.token)
    /\ lastOp' = Op("heartbeat", o.job, o.token)
    /\ orphans' = [orphans EXCEPT ![w] = @ \ {o}]
    /\ UNCHANGED <<input, cache, tokenSeq, pc, cur, backoff, hb, run, dq, fx>>

\* time: a running job's heartbeat gets older than STALE_MINUTES
GoStale(j) ==
    /\ jobs[j].status = "running"
    /\ jobs[j].fresh
    /\ jobs' = [jobs EXCEPT ![j].fresh = FALSE]
    /\ lastOp' = NoOp
    /\ UNCHANGED <<input, cache, tokenSeq, pc, cur, backoff, hb, orphans, run, dq, fx>>

\* time: a cache entry's expires_at passes
CacheExpire(k) ==
    /\ cache[k].state = "valid"
    /\ cache' = [cache EXCEPT ![k].state = "expired"]
    /\ lastOp' = NoOp
    /\ UNCHANGED <<jobs, input, tokenSeq, pc, cur, backoff, hb, orphans, run, dq, fx>>

Next ==
    \/ \E w \in Workers, j \in Jobs : Claim(w, j)
    \/ \E w \in Workers : AttemptsExceeded(w)
    \/ \E w \in Workers : StartProcess(w)
    \/ \E w \in Workers : PreCheck(w)
    \/ \E w \in Workers : CacheComplete(w)
    \/ \E w \in Workers : Pipeline(w)
    \/ \E w \in Workers : Fail(w)
    \/ \E w \in Workers : Finalize(w)
    \/ \E w \in Workers : Unexpected(w)
    \/ \E w \in Workers : Except(w)
    \/ \E w \in Workers : Finally(w)
    \/ \E w \in Workers : JoinDone(w)
    \/ \E w \in Workers : JoinTimeout(w)
    \/ \E w \in Workers : HbTick(w)
    \/ \E w \in Workers : HbSend(w)
    \/ \E w \in Workers : \E o \in orphans[w] : OrphanSend(w, o)
    \/ \E j \in Jobs : GoStale(j)
    \/ \E k \in Jobs : CacheExpire(k)

Spec == Init /\ [][Next]_vars


\* ==========================================================================
\* Day-by-day scrape pass (worker/scraper/day_query.py, price_estimator.py)
\* and the calendar built from it (worker/main.py)
\* ==========================================================================

\* median_price = None
NoPrice == 0 - 1

\* more failing nights than this are not explored in one pass
MaxFailedNights == 2

\* a Thursday (date.toordinal() of 2026-01-01), so windows cross weekends
Checkins == {739617}

\* requested window lengths, checkout - checkin: empty, short, around
\* SAMPLE_THRESHOLD, around MAX_SAMPLE_QUERIES, up to MAX_NIGHTS and beyond
NightCounts ==
    {0, 1, 2, 3, 10, SAMPLE_THRESHOLD, SAMPLE_THRESHOLD + 1, MAX_SAMPLE_QUERIES,
     MAX_SAMPLE_QUERIES + 1, MAX_SAMPLE_QUERIES + 2, MAX_NIGHTS, MAX_NIGHTS + 1}

\* what the marketplace answers for a night that yields comparables, in
\* cents: the same price every night, or a price rising through the window
Markets == {"flat", "ramp"}
MarketPrice(market, i) ==
    IF market = "flat" THEN 10000 ELSE 10000 + 1250 * i

\* sorted(set): ascending sequence of a finite set of integers
SortedSeq(S) ==
    [i \in 1..Cardinality(S) |->
        CHOOSE x \in S : Cardinality({y \in S : y < x}) = i - 1]

\* math.ceil(a / b) for positive integers
CeilDiv(a, b) == (a + b - 1) \div b

\* round() of the fraction num/den to an integer, ties to even (Python 3)
RoundDiv(num, den) ==
    LET q == num \div den
        r == num % den
    IN IF 2 * r < den THEN q
       ELSE IF 2 * r > den THEN q + 1
       ELSE IF q % 2 = 0 THEN q ELSE q + 1

\* daterange_nights with an inclusive end
DaterangeNights_Inclusive(start, end) ==
    IF end >= start THEN [i \in 1..(end - start + 1) |-> start + i - 1] ELSE <<>>

\* daterange_nights: each night in [start_date, end_date)
DaterangeNights(start, end) ==
    IF end > start THEN [i \in 1..(end - start) |-> start + i - 1] ELSE <<>>

\* a compute_sample_dates whose step is rounded down
ComputeSampleDates_FloorStep(total, maxQueries) ==
    IF total <= maxQueries
    THEN [i \in 1..total |-> i - 1]
    ELSE LET step == total \div maxQueries
         IN SortedSeq({0, total - 1} \cup {i \in 0..(total - 1) : i % step = 0})

\* compute_sample_dates: all indices, or 0, N-1 and every step-th index
ComputeSampleDates(total, maxQueries) ==
    IF total <= maxQueries
    THEN [i \in 1..total |-> i - 1]
    ELSE LET step == CeilDiv(total, maxQueries)
         IN SortedSeq({0, total - 1} \cup {i \in 0..(total - 1) : i % step = 0})

\* run_scrape: which nights to query
SampleIndices(total) ==
    IF total <= SAMPLE_THRESHOLD
    THEN [i \in 1..total |-> i - 1]
    ELSE ComputeSampleDates(total, MAX_SAMPLE_QUERIES)

\* date.weekday() >= 4 (the ordinal of a Monday is 1 mod 7)
IsWeekend(d) == ((d - 1) % 7) >= 4

\* estimate_base_price_for_date: the DayResult of one 1-night query; price is
\* NoPrice when the query raised or collected no comparables
QueryResult(d, price) ==
    [date |-> d,
     median_price |-> price,
     filter_stage |-> IF price = NoPrice THEN "error" ELSE "strict",
     flags |-> IF price = NoPrice THEN {"missing_data"} ELSE {},
     is_sampled |-> TRUE,
     is_weekend |-> IsWeekend(d)]

\* an _interpolate that brackets the night by the first and the last anchor
Interpolate_OuterAnchors(target, anchors) ==
    IF Len(anchors) = 0 THEN <<>>
    ELSE IF Len(anchors) = 1 THEN <<anchors[1][2], 1>>
    ELSE
      LET b == anchors[1]
          a == anchors[Len(anchors)]
      IN IF target <= b[1] THEN <<b[2], 1>>
         ELSE IF target >= a[1] THEN <<a[2], 1>>
         ELSE <<b[2] * (a[1] - b[1]) + (target - b[1]) * (a[2] - b[2]),
                a[1] - b[1]>>

\* an _interpolate that gives nothing outside the range of the anchors
Interpolate_NoExtrapolation(target, anchors) ==
    IF Len(anchors) = 0 THEN <<>>
    ELSE IF target < anchors[1][1] \/ target > anchors[Len(anchors)][1]
    THEN <<>>
    ELSE
      LET befores == {i \in 1..Len(anchors) : anchors[i][1] <= target}
          afters == {i \in 1..Len(anchors) : anchors[i][1] >= target}
          b == anchors[CHOOSE i \in befores : \A k \in befores : i >= k]
          a == anchors[CHOOSE i \in afters : \A k \in afters : i <= k]
      IN IF b[1] = a[1] THEN <<b[2], 1>>
         ELSE LET span == a[1] - b[1]
                  offset == target - b[1]
              IN <<b[2] * span + offset * (a[2] - b[2]), span>>

\* _interpolate: linear interpolation between the two nearest anchors;
\* anchors is a date-ascending sequence of <<date, price>>; the result is the
\* exact value as a fraction <<numerator, denominator>>, or <<>> for None
Interpolate(target, anchors) ==
    IF Len(anchors) = 0 THEN <<>>
    ELSE IF Len(anchors) = 1 THEN <<anchors[1][2], 1>>
    ELSE
      LET befores == {i \in 1..Len(anchors) : anchors[i][1] <= target}
          afters == {i \in 1..Len(anchors) : anchors[i][1] >= target}
      IN IF befores = {} /\ afters # {}
         THEN <<anchors[CHOOSE i \in afters : \A k \in afters : i <= k][2], 1>>
         ELSE IF afters = {} /\ befores # {}
         THEN <<anchors[CHOOSE i \in befores : \A k \in befores : i >= k][2], 1>>
         ELSE IF befores = {} /\ afters = {} THEN <<>>
         ELSE
           LET b == anchors[CHOOSE i \in befores : \A k \in befores : i >= k]
               a == anchors[CHOOSE i \in afters : \A k \in afters : i <= k]
           IN IF b[1] = a[1] THEN <<b[2], 1>>
              ELSE LET span == a[1] - b[1]
                       offset == target - b[1]
                   IN <<b[2] * span + offset * (a[2] - b[2]), span>>

\* interpolate_missing_days: the dates of the sampled results with a price
ValidDates(sampled) ==
    {sampled[i].date : i \in {k \in 1..Len(sampled) : sampled[k].median_price # NoPrice}}

\* interpolate_missing_days: the dates of all sampled results
SampledDates(sampled) == {sampled[i].date : i \in 1..Len(sampled)}

\* interpolate_missing_days: valid_map[ds], the last priced result of a date
ValidResult(sampled, d) ==
    sampled[CHOOSE i \in 1..Len(sampled) :
               /\ sampled[i].date = d
               /\ sampled[i].median_price # NoPrice
               /\ \A k \in 1..Len(sampled) :
                     (sampled[k].date = d /\ sampled[k].median_price # NoPrice)
                        => k <= i]

\* interpolate_missing_days: anchors sorted by date
Anchors(sampled) ==
    LET ds == SortedSeq(ValidDates(sampled))
    IN [i \in 1..Len(ds) |-> <<ds[i], ValidResult(sampled, ds[i]).median_price>>]

\* interpolate_missing_days: the row of one night; an interpolated price is
\* recorded as round(interp_price, 2), a whole number of cents
NightRow(sampled, night) ==
    IF night \in ValidDates(sampled)
    THEN ValidResult(sampled, night)
    ELSE LET interp == Interpolate(night, Anchors(sampled))
             price == IF interp = <<>> THEN NoPrice
                      ELSE RoundDiv(interp[1], interp[2])
         IN IF price # NoPrice
            THEN [date |-> night,
                  median_price |-> price,
                  filter_stage |-> "interpolated",
                  flags |-> {"interpolated"} \cup
                            (IF night \in SampledDates(sampled)
                             THEN {"missing_data"} ELSE {}),
                  is_sampled |-> FALSE,
                  is_weekend |-> IsWeekend(night)]
            ELSE [date |-> night,
                  median_price |-> NoPrice,
                  filter_stage |-> "no_data",
                  flags |-> {"missing_data"},
                  is_sampled |-> FALSE,
                  is_weekend |-> IsWeekend(night)]

\* interpolate_missing_days: one DayResult per night of all_nights
InterpolateMissingDays(sampled, allNights) ==
    [i \in 1..Len(allNights) |-> NightRow(sampled, allNights[i])]

\* _build_scrape_calendar: dr_map.get(ds), the last result of a date
DrLookup(daily, d) ==
    LET hits == {i \in 1..Len(daily) : daily[i].date = d}
    IN IF hits = {} THEN [median_price |-> NoPrice, flags |-> {}]
       ELSE LET r == daily[CHOOSE i \in hits : \A k \in hits : k <= i]
            IN [median_price |-> r.median_price, flags |-> r.flags]

\* _build_scrape_calendar: None when no day has a price, else one row per
\* day of range(total_days); prices of the rows are whole currency units
BuildScrapeCalendar(daily, start, end) ==
    LET totalDays == Max(1, end - start)
        anyPrice == \E i \in 1..Len(daily) : daily[i].median_price # NoPrice
    IN IF ~anyPrice THEN <<>>
       ELSE [i \in 1..totalDays |->
               LET d == start + i - 1
                   dr == DrLookup(daily, d)
                   base == IF dr.median_price # NoPrice
                           THEN RoundDiv(dr.median_price, 100) ELSE NoPrice
               IN [date |-> d,
                   baseDailyPrice |-> base,
                   isWeekend |-> IsWeekend(d),
                   flags |-> dr.flags \cup
                             (IF base = NoPrice THEN {"missing_data"} ELSE {})]]

\* a retry loop that makes every attempt and keeps the last result
RetryLoop_NoBreak(outcomes) == outcomes

\* run_scrape: the retry loop of one night; outcomes[k] tells whether the
\* k-th attempt would yield a price; the result is the outcomes of the
\* attempts made, which end at the first price
RetryLoop(outcomes) ==
    LET hits == {k \in DOMAIN outcomes : outcomes[k]}
    IN IF hits = {} THEN outcomes
       ELSE SubSeq(outcomes, 1, CHOOSE k \in hits : \A h \in hits : k <= h)

\* a runtime check that only stops the loop when no time is left at all
GlobalTimeout_Expired(remaining) == remaining < 0

\* run_scrape: remaining < 15, with remaining = max_runtime_seconds - elapsed
GlobalTimeout(remaining) == remaining < 15

\* readings of remaining at the check, in seconds: 15 stands for every
\* reading that lets the loop go on, 14 for every reading that stops it
RemainingSeconds == {15, 14}

DqStart(c, n, m) ==
    [phase |-> "start", checkin |-> c, checkout |-> c + n, market |-> m,
     indices |-> <<>>, pos |-> 1, attempts |-> 0, tries |-> <<>>,
     remaining |-> 15,
     sampled |-> <<>>, results |-> <<>>, calendar |-> <<>>]

InitDays ==
    /\ input = [j \in Jobs |-> [url |-> TRUE, inputMode |-> "url"]]
    /\ jobs = [j \in Jobs |-> [status |-> "queued", token |-> NoToken,
                               attempts |-> 0, fresh |-> FALSE,
                               summary |-> "none", error |-> "none"]]
    /\ cache = [j \in Jobs |-> NoEntry]
    /\ tokenSeq = 0
    /\ pc = [w \in Workers |-> "poll"]
    /\ cur = [w \in Workers |-> NoCur]
    /\ backoff = [w \in Workers |-> BasePoll]
    /\ hb = [w \in Workers |-> NoHb]
    /\ orphans = [w \in Workers |-> {}]
    /\ run = [w \in Workers |-> NoRun]
    /\ lastOp = NoOp
    /\ dq \in {DqStart(c, n, m) : c \in Checkins, n \in NightCounts, m \in Markets}
    /\ fx = FxIdle

TotalNights == dq.checkout - dq.checkin

FailedSoFar ==
    Cardinality({i \in 1..Len(dq.sampled) : dq.sampled[i].median_price = NoPrice})

\* run_scrape: an invalid window returns no results, a window longer than
\* MAX_NIGHTS raises ValueError; both before any collaborator is called
DqReject ==
    /\ dq.phase = "start"
    /\ TotalNights < 1 \/ TotalNights > MAX_NIGHTS
    /\ dq' = [dq EXCEPT !.phase = IF TotalNights < 1 THEN "empty"
                                  ELSE "value_error"]
    /\ UNCHANGED <<lifeVars, fx>>

\* run_scrape: the render endpoint is down, or the listing has no location
DqUnavailable ==
    /\ dq.phase = "start"
    /\ ~(TotalNights < 1 \/ TotalNights > MAX_NIGHTS)
    /\ dq' = [dq EXCEPT !.phase = "empty"]
    /\ UNCHANGED <<lifeVars, fx>>

\* run_scrape: window accepted, nights to query chosen, target extracted
DqBegin ==
    /\ dq.phase = "start"
    /\ ~(TotalNights < 1 \/ TotalNights > MAX_NIGHTS)
    /\ \E left \in RemainingSeconds :
          dq' = [dq EXCEPT !.phase = "loop",
                           !.indices = SampleIndices(TotalNights),
                           !.remaining = left]
    /\ UNCHANGED <<lifeVars, fx>>

\* run_scrape: the runtime check passes, then the query of one night with
\* its retries: up to PER_DAY_MAX_RETRIES attempts, stopping at the first
\* that yields a price; time passes while the attempts run
DqQuery ==
    /\ dq.phase = "loop"
    /\ dq.pos <= Len(dq.indices)
    /\ ~GlobalTimeout(dq.remaining)
    /\ LET nights == DaterangeNights(dq.checkin, dq.checkout)
           idx == dq.indices[dq.pos]
           night == nights[idx + 1]
       IN \E outcomes \in [1..PER_DAY_MAX_RETRIES -> BOOLEAN],
             left \in {r \in RemainingSeconds : r <= dq.remaining} :
            LET made == RetryLoop(outcomes)
                ok == made[Len(made)]
                price == IF ok THEN MarketPrice(dq.market, idx) ELSE NoPrice
            IN /\ ~ok => FailedSoFar < MaxFailedNights
               /\ dq' = [dq EXCEPT
                           !.sampled = Append(@, QueryResult(night, price)),
                           !.pos = @ + 1,
                           !.attempts = Len(made),
                           !.tries = made,
                           !.remaining = left]
    /\ UNCHANGED <<lifeVars, fx>>

\* run_scrape: fewer than 15 seconds remain before a night's query: break
DqTimeout ==
    /\ dq.phase = "loop"
    /\ dq.pos <= Len(dq.indices)
    /\ GlobalTimeout(dq.remaining)
    /\ dq' = [dq EXCEPT !.phase = "stopped"]
    /\ UNCHANGED <<lifeVars, fx>>

\* run_scrape: interpolate and return; process_job: build the calendar when
\* some night has a price
DqFinish ==
    /\ \/ dq.phase = "stopped"
       \/ dq.phase = "loop" /\ dq.pos > Len(dq.indices)
    /\ LET nights == DaterangeNights(dq.checkin, dq.checkout)
           results == InterpolateMissingDays(dq.sampled, nights)
       IN dq' = [dq EXCEPT
                   !.phase = "done",
                   !.results = results,
                   !.calendar = BuildScrapeCalendar(results, dq.checkin,
                                                    dq.checkout)]
    /\ UNCHANGED <<lifeVars, fx>>

NextDays ==
    \/ DqReject
    \/ DqUnavailable
    \/ DqBegin
    \/ DqQuery
    \/ DqTimeout
    \/ DqFinish

SpecDays == InitDays /\ [][NextDays]_vars


\* ==========================================================================
\* Function-level specifications: one call of a pure function, its inputs
\* drawn in the initial state
\* ==========================================================================

\* the lifecycle variables while a function-level specification runs
IdleLife ==
    /\ input = [j \in Jobs |-> [url |-> TRUE, inputMode |-> "url"]]
    /\ jobs = [j \in Jobs |-> [status |-> "queued", token |-> NoToken,
                               attempts |-> 0, fresh |-> FALSE,
                               summary |-> "none", error |-> "none"]]
    /\ cache = [j \in Jobs |-> NoEntry]
    /\ tokenSeq = 0
    /\ pc = [w \in Workers |-> "poll"]
    /\ cur = [w \in Workers |-> NoCur]
    /\ backoff = [w \in Workers |-> BasePoll]
    /\ hb = [w \in Workers |-> NoHb]
    /\ orphans = [w \in Workers |-> {}]
    /\ run = [w \in Workers |-> NoRun]
    /\ lastOp = NoOp
    /\ dq = DqIdle

\* ---- compute_cache_key (worker/core/cache.py) ----------------------------

\* at most this many inputs differ between the two requests compared
MaxDiffer == 2

\* the inputs of a job that the pipeline reads to build its calendar: mode,
\* URL, address, core attributes, date range and the discount policy, whose
\* minPriceFloor / maxPriceCeiling clamp every price of the calendar
OutputInputs ==
    {"inputMode", "listing_url", "address", "propertyType", "bedrooms",
     "bathrooms", "maxGuests", "startDate", "endDate", "weeklyDiscountPct",
     "monthlyDiscountPct", "refundable", "nonRefundableDiscountPct",
     "stackingMode", "maxTotalDiscountPct", "minPriceFloor",
     "maxPriceCeiling"}

\* the keys of the payload compute_cache_key serialises
PayloadKeys ==
    {"inputMode", "listing_url", "address", "propertyType", "bedrooms",
     "bathrooms", "maxGuests", "startDate", "endDate", "weeklyDiscountPct",
     "monthlyDiscountPct", "refundable", "nonRefundableDiscountPct",
     "stackingMode", "maxTotalDiscountPct"}

\* compute_cache_key: the canonical JSON of the payload, hashed; the hash is
\* taken to be one-to-one on payloads, so the key is the payload
ComputeCacheKey(req) == [k \in PayloadKeys |-> req[k]]

\* a request: every input takes one of two values, 0 or 1
BaseRequest == [k \in OutputInputs |-> 0]

\* the request that differs from req in exactly the inputs of D
Differing(req, D) == [k \in OutputInputs |-> IF k \in D THEN 1 - req[k] ELSE req[k]]

InitKey ==
    /\ IdleLife
    /\ \E D \in SUBSET OutputInputs :
          /\ Cardinality(D) <= MaxDiffer
          /\ fx = [fn |-> "compute_cache_key", phase |-> "in",
                   a |-> BaseRequest, b |-> Differing(BaseRequest, D),
                   keyA |-> <<>>, keyB |-> <<>>]

\* process_job: cache_key = compute_cache_key(...), for each of two jobs
KeyCompute ==
    /\ fx.phase = "in"
    /\ fx' = [fx EXCEPT !.phase = "out",
                        !.keyA = ComputeCacheKey(fx.a),
                        !.keyB = ComputeCacheKey(fx.b)]
    /\ UNCHANGED <<lifeVars, dq>>

NextKey == KeyCompute

SpecKey == InitKey /\ [][NextKey]_vars


\* ==========================================================================
\* Poll loop of main() with its backoff (worker/main.py), process_job taken
\* as one step
\* ==========================================================================

InitPoll ==
    /\ IdleLife
    /\ fx = FxIdle

\* a poll that multiplies the backoff without the cap
NoWork_NoCap(w) ==
    /\ pc[w] = "poll"
    /\ \A j \in Jobs : ~Eligible(jobs[j])
    /\ lastOp' = PollOp("claim_none", w, backoff[w])
    /\ backoff' = [backoff EXCEPT ![w] = (@ * 3) \div 2]
    /\ UNCHANGED <<jobs, input, cache, tokenSeq, pc, cur, hb, orphans, run, dq, fx>>

\* main(): claim_job returned None: wait(backoff), then
\* backoff = min(backoff * 1.5, max_backoff); in 1/64 second every value
\* below the cap is a whole number
NoWork(w) ==
    /\ pc[w] = "poll"
    /\ \A j \in Jobs : ~Eligible(jobs[j])
    /\ lastOp' = PollOp("claim_none", w, backoff[w])
    /\ backoff' = [backoff EXCEPT ![w] = Min((@ * 3) \div 2, MaxBackoff)]
    /\ UNCHANGED <<jobs, input, cache, tokenSeq, pc, cur, hb, orphans, run, dq, fx>>

\* main(): except Exception: claim_job raised, or the fail_job of the
\* attempts branch raised before its write: wait(backoff), then
\* backoff = min(backoff * 2, max_backoff)
LoopError(w) ==
    /\ \/ pc[w] = "poll"
       \/ pc[w] = "claimed" /\ cur[w].attempts > MAX_ATTEMPTS
    /\ lastOp' = PollOp("loop_error", w, backoff[w])
    /\ backoff' = [backoff EXCEPT ![w] = Min(@ * 2, MaxBackoff)]
    /\ pc' = [pc EXCEPT ![w] = "poll"]
    /\ cur' = [cur EXCEPT ![w] = NoCur]
    /\ UNCHANGED <<jobs, input, cache, tokenSeq, hb, orphans, run, dq, fx>>

\* main(): process_job(job, worker_token) from call to return; by the steps
\* of Spec every run ends with one fail_job under the claim token
ProcessJob(w) ==
    /\ pc[w] = "claimed"
    /\ ~(cur[w].attempts > MAX_ATTEMPTS)
    /\ \E msg \in {"generic", "busy_no_data"} :
          jobs' = FailJobUpdate(jobs, cur[w].job, cur[w].token, msg)
    /\ lastOp' = Op("fail_job", cur[w].job, cur[w].token)
    /\ pc' = [pc EXCEPT ![w] = "poll"]
    /\ cur' = [cur EXCEPT ![w] = NoCur]
    /\ UNCHANGED <<input, cache, tokenSeq, backoff, hb, orphans, run, dq, fx>>

NextPoll ==
    \/ \E w \in Workers, j \in Jobs : Claim(w, j)
    \/ \E w \in Workers : AttemptsExceeded(w)
    \/ \E w \in Workers : ProcessJob(w)
    \/ \E w \in Workers : NoWork(w)
    \/ \E w \in Workers : LoopError(w)
    \/ \E j \in Jobs : GoStale(j)

SpecPoll == InitPoll /\ [][NextPoll]_vars


\* ==========================================================================
\* Entry of the pipeline in its two modes, up to the first night's query
\* (worker/scraper/price_estimator.py): which collaborator calls are issued
\* ==========================================================================

\* requested window lengths, checkout - checkin, from negative to beyond
\* MAX_NIGHTS
EntryNights == (0 - 2)..(MAX_NIGHTS + 2)

\* process_job: Mode A calls run_scrape, Mode B calls run_criteria_search
EntryStart(mode, n) ==
    [fn |-> "pipeline_entry", mode |-> mode, nights |-> n,
     phase |-> IF mode = "url" THEN "run_scrape" ELSE "run_criteria_search",
     calls |-> <<>>, outcome |-> "none"]

InitEntry ==
    /\ IdleLife
    /\ fx \in {EntryStart(mode, n) : mode \in {"url", "criteria"},
                                     n \in EntryNights}

\* run_scrape: parse and validate the dates
ScrapeValidate ==
    /\ fx.phase = "run_scrape"
    /\ fx' = IF fx.nights < 1
             THEN [fx EXCEPT !.phase = "done", !.outcome = "invalid_range"]
             ELSE IF fx.nights > MAX_NIGHTS
             THEN [fx EXCEPT !.phase = "done", !.outcome = "value_error"]
             ELSE [fx EXCEPT !.phase = "scrape_cdp"]
    /\ UNCHANGED <<lifeVars, dq>>

\* run_scrape: check_cdp_endpoint(cdp_url)
ScrapeCdpCheck ==
    /\ fx.phase = "scrape_cdp"
    /\ \E ok \in BOOLEAN :
          fx' = [fx EXCEPT !.calls = Append(@, "check_cdp_endpoint"),
                           !.phase = IF ok THEN "scrape_connect" ELSE "done",
                           !.outcome = IF ok THEN @ ELSE "cdp_unavailable"]
    /\ UNCHANGED <<lifeVars, dq>>

\* run_scrape: connect_over_cdp, then the night-by-night pass of SpecDays
ScrapeConnect ==
    /\ fx.phase = "scrape_connect"
    /\ fx' = [fx EXCEPT !.calls = Append(@, "connect_over_cdp"),
                        !.phase = "done", !.outcome = "scraping"]
    /\ UNCHANGED <<lifeVars, dq>>

\* run_criteria_search: check_cdp_endpoint(cdp_url)
CriteriaCdpCheck ==
    /\ fx.phase = "run_criteria_search"
    /\ \E ok \in BOOLEAN :
          fx' = [fx EXCEPT !.calls = Append(@, "check_cdp_endpoint"),
                           !.phase = IF ok THEN "criteria_connect" ELSE "done",
                           !.outcome = IF ok THEN @ ELSE "cdp_unavailable"]
    /\ UNCHANGED <<lifeVars, dq>>

\* run_criteria_search: connect_over_cdp and a new page
CriteriaConnect ==
    /\ fx.phase = "criteria_connect"
    /\ fx' = [fx EXCEPT !.calls = Append(@, "connect_over_cdp"),
                        !.phase = "criteria_search"]
    /\ UNCHANGED <<lifeVars, dq>>

\* run_criteria_search, pass 1: page.goto(search_url) and scroll_and_collect;
\* it ends without results on a timeout, on no candidates or with less than
\* 30 seconds left, and otherwise hands the best match to run_scrape
CriteriaSearch ==
    /\ fx.phase = "criteria_search"
    /\ \E found \in BOOLEAN :
          fx' = [fx EXCEPT !.calls = Append(@, "page.goto"),
                           !.phase = IF found THEN "run_scrape" ELSE "done",
                           !.outcome = IF found THEN @ ELSE "no_anchor"]
    /\ UNCHANGED <<lifeVars, dq>>

NextEntry ==
    \/ ScrapeValidate
    \/ ScrapeCdpCheck
    \/ ScrapeConnect
    \/ CriteriaCdpCheck
    \/ CriteriaConnect
    \/ CriteriaSearch

SpecEntry == InitEntry /\ [][NextEntry]_vars


\* ---- apply_discount (worker/core/discounts.py) ---------------------------

\* a discount fraction is held in 1/10000: pct / 100 is pct * 100, and
\* 1 - (1 - l)(1 - n) of two such fractions is l + n - l * n / 10000, a whole
\* number when l and n are whole percentages
Frac(pct) == pct * 100

\* base prices, stay lengths and policies tried; percentages are whole
DiscountBases == {200, 95}
StayLengths == {0 - 1, 0, 1, 6, 7, 27, 28, 30}
WeeklyPcts == {0, 8, 50}
MonthlyPcts == {0, 18, 45}
NonRefundablePcts == {0, 10, 50}
StackingModes == {"compound", "additive", "best_only"}
MaxTotalPcts == {40, 20}

DiscountPolicies ==
    [weeklyDiscountPct : WeeklyPcts, monthlyDiscountPct : MonthlyPcts,
     refundable : BOOLEAN, nonRefundableDiscountPct : NonRefundablePcts,
     stackingMode : StackingModes, maxTotalDiscountPct : MaxTotalPcts]

\* apply_discount: the length-of-stay discount
LengthDiscount(stay, policy) ==
    IF stay >= 28 /\ policy.monthlyDiscountPct > 0
    THEN Frac(policy.monthlyDiscountPct)
    ELSE IF stay >= 7 /\ policy.weeklyDiscountPct > 0
    THEN Frac(policy.weeklyDiscountPct)
    ELSE 0

\* an apply_discount that tests the weekly discount before the monthly one
ApplyDiscount_WeeklyFirst(base, stay, policy) ==
    LET len == IF stay >= 7 /\ policy.weeklyDiscountPct > 0
               THEN Frac(policy.weeklyDiscountPct)
               ELSE IF stay >= 28 /\ policy.monthlyDiscountPct > 0
               THEN Frac(policy.monthlyDiscountPct)
               ELSE 0
        nonRef == IF policy.refundable THEN 0
                  ELSE Frac(policy.nonRefundableDiscountPct)
        cap == Frac(policy.maxTotalDiscountPct)
        nr == IF policy.stackingMode = "best_only" THEN Max(len, nonRef)
              ELSE IF policy.stackingMode = "additive"
              THEN Min(len + nonRef, cap)
              ELSE Min(len + nonRef - (len * nonRef) \div 10000, cap)
        r == Min(len, cap)
    IN [refundableDiscount |-> r,
        nonRefundableDiscount |-> nr,
        refundablePrice |-> RoundDiv(base * (10000 - r), 10000),
        nonRefundablePrice |-> RoundDiv(base * (10000 - nr), 10000)]

\* an apply_discount without the final cap on the refundable discount
ApplyDiscount_NoRefundableCap(base, stay, policy) ==
    LET len == LengthDiscount(stay, policy)
        nonRef == IF policy.refundable THEN 0
                  ELSE Frac(policy.nonRefundableDiscountPct)
        cap == Frac(policy.maxTotalDiscountPct)
        nr == IF policy.stackingMode = "best_only" THEN Max(len, nonRef)
              ELSE IF policy.stackingMode = "additive"
              THEN Min(len + nonRef, cap)
              ELSE Min(len + nonRef - (len * nonRef) \div 10000, cap)
    IN [refundableDiscount |-> len,
        nonRefundableDiscount |-> nr,
        refundablePrice |-> RoundDiv(base * (10000 - len), 10000),
        nonRefundablePrice |-> RoundDiv(base * (10000 - nr), 10000)]

\* apply_discount: the two discount fractions it applies and the two prices
\* it returns, round(base_price * (1 - discount))
ApplyDiscount(base, stay, policy) ==
    LET len == LengthDiscount(stay, policy)
        nonRef == IF policy.refundable THEN 0
                  ELSE Frac(policy.nonRefundableDiscountPct)
        cap == Frac(policy.maxTotalDiscountPct)
        nr == IF policy.stackingMode = "best_only" THEN Max(len, nonRef)
              ELSE IF policy.stackingMode = "additive"
              THEN Min(len + nonRef, cap)
              ELSE Min(len + nonRef - (len * nonRef) \div 10000, cap)
        r == Min(len, cap)
    IN [refundableDiscount |-> r,
        nonRefundableDiscount |-> nr,
        refundablePrice |-> RoundDiv(base * (10000 - r), 10000),
        nonRefundablePrice |-> RoundDiv(base * (10000 - nr), 10000)]

InitDiscount ==
    /\ IdleLife
    /\ \E base \in DiscountBases, stay \in StayLengths,
          policy \in DiscountPolicies :
          fx = [fn |-> "apply_discount", phase |-> "in", base |-> base,
                stay |-> stay, policy |-> policy, out |-> <<>>]

\* _build_scrape_calendar: disc = apply_discount(price, total_days, policy)
DiscountApply ==
    /\ fx.phase = "in"
    /\ fx' = [fx EXCEPT !.phase = "out",
                        !.out = ApplyDiscount(fx.base, fx.stay, fx.policy)]
    /\ UNCHANGED <<lifeVars, dq>>

NextDiscount == DiscountApply

SpecDiscount == InitDiscount /\ [][NextDiscount]_vars


\* ---- compute_sample_dates (worker/scraper/day_query.py) ------------------

\* window lengths and query budgets tried
MaxSampleNights == 40
MaxSampleBudget == 8

InitSample ==
    /\ IdleLife
    /\ \E n \in 0..MaxSampleNights,
          q \in (1..MaxSampleBudget) \cup {MAX_SAMPLE_QUERIES} :
          fx = [fn |-> "compute_sample_dates", phase |-> "in",
                n |-> n, maxQueries |-> q, out |-> <<>>]

\* run_scrape: sample_indices = compute_sample_dates(total_nights, max_queries)
SampleApply ==
    /\ fx.phase = "in"
    /\ fx' = [fx EXCEPT !.phase = "out",
                        !.out = ComputeSampleDates(fx.n, fx.maxQueries)]
    /\ UNCHANGED <<lifeVars, dq>>

NextSample == SampleApply

SpecSample == InitSample /\ [][NextSample]_vars


\* ---- interpolate_missing_days (worker/scraper/day_query.py) --------------

\* length of the window whose nights are filled in
InterpWindow == 17

\* the nights of the window, counted from 1, that a pass may have queried
InterpPositions == {2, 5, 12, InterpWindow - 1}

\* what a pass holds for such a night: not queried, queried without a price,
\* or a median price in cents
NotQueried == 0 - 2
InterpChoices == {NotQueried, NoPrice, 10000, 10001, 20000}

\* the sampled results of a pass, in ascending order of night
SampledOf(start, choice) ==
    LET ps == SortedSeq({k \in InterpPositions : choice[k] # NotQueried})
    IN [i \in 1..Len(ps) |-> QueryResult(start + ps[i] - 1, choice[ps[i]])]

InitInterp ==
    /\ IdleLife
    /\ \E start \in Checkins, choice \in [InterpPositions -> InterpChoices] :
          fx = [fn |-> "interpolate_missing_days", phase |-> "in",
                start |-> start, nights |-> InterpWindow,
                sampled |-> SampledOf(start, choice), out |-> <<>>]

\* run_scrape: all_results = interpolate_missing_days(sampled_results,
\* all_nights)
InterpApply ==
    /\ fx.phase = "in"
    /\ fx' = [fx EXCEPT
                !.phase = "out",
                !.out = InterpolateMissingDays(
                            fx.sampled,
                            DaterangeNights(fx.start, fx.start + fx.nights))]
    /\ UNCHANGED <<lifeVars, dq>>

NextInterp == InterpApply

SpecInterp == InitInterp /\ [][NextInterp]_vars


\* ---- _weighted_median (worker/core/pricing_engine.py) --------------------

\* longest list of comparable prices tried
MaxMedianLen == 4

\* prices and weights tried; all weights of a list are the same
MedianValues == {100, 200, 300}
MedianWeights == {1, 2}

\* sum of a sequence of numbers
RECURSIVE SumSeq(_)
SumSeq(s) == IF s = <<>> THEN 0 ELSE s[1] + SumSeq(Tail(s))

\* sorted(zip(values, weights), key = value): Python's sort is stable
SortedPairs(values, weights) ==
    LET n == Len(values)
        rank(i) == 1 + Cardinality({k \in 1..n :
                          \/ values[k] < values[i]
                          \/ values[k] = values[i] /\ k < i})
    IN [r \in 1..n |->
          LET i == CHOOSE k \in 1..n : rank(k) = r
          IN <<values[i], weights[i]>>]

\* _weighted_median: the first value, in ascending order, at which the
\* running weight reaches half of the total; None is NoPrice
WeightedMedian(values, weights) ==
    IF Len(values) = 0 \/ Len(weights) = 0 \/ Len(values) # Len(weights)
    THEN NoPrice
    ELSE LET pairs == SortedPairs(values, weights)
             total == SumSeq(weights)
             cum(k) == SumSeq([i \in 1..k |-> pairs[i][2]])
             hits == {k \in 1..Len(pairs) : 2 * cum(k) >= total}
         IN IF total <= 0 THEN NoPrice
            ELSE IF hits = {} THEN pairs[Len(pairs)][1]
            ELSE pairs[CHOOSE k \in hits : \A h \in hits : k <= h][1]

InitMedian ==
    /\ IdleLife
    /\ \E n \in 1..MaxMedianLen, w \in MedianWeights :
          \E values \in [1..n -> MedianValues] :
             fx = [fn |-> "_weighted_median", phase |-> "in",
                   values |-> values, weights |-> [i \in 1..n |-> w],
                   out |-> NoPrice]

\* recommend_price: wm = _weighted_median(prices, weights)
MedianApply ==
    /\ fx.phase = "in"
    /\ fx' = [fx EXCEPT !.phase = "out",
                        !.out = WeightedMedian(fx.values, fx.weights)]
    /\ UNCHANGED <<lifeVars, dq>>

NextMedian == MedianApply

SpecMedian == InitMedian /\ [][NextMedian]_vars


\* ---- compute_time_multiplier (worker/core/dynamic_pricing.py) ------------

\* nights up to this many days ahead of, or behind, today are tried
MaxDaysAway == 35

\* a compute_time_multiplier whose buckets include their lower edge
ComputeTimeMultiplier_Inclusive(today, target) ==
    LET daysAway == target - today
    IN IF daysAway >= 30 THEN 100
       ELSE IF daysAway >= 14 THEN 97
       ELSE IF daysAway >= 7 THEN 92
       ELSE IF daysAway >= 3 THEN 85
       ELSE 75

\* compute_time_multiplier, in hundredths (1.00 is 100)
ComputeTimeMultiplier(today, target) ==
    LET daysAway == target - today
    IN IF daysAway > 30 THEN 100
       ELSE IF daysAway > 14 THEN 97
       ELSE IF daysAway > 7 THEN 92
       ELSE IF daysAway > 3 THEN 85
       ELSE 75

InitTime ==
    /\ IdleLife
    /\ \E today \in Checkins, d \in (0 - MaxDaysAway)..MaxDaysAway :
          fx = [fn |-> "compute_time_multiplier", phase |-> "in",
                today |-> today, target |-> today + d, passed |-> 0,
                out |-> 0]

\* compute_dynamic_pricing_adjustment: the multiplier of one calendar day
TimeApply ==
    /\ fx.phase = "in"
    /\ fx' = [fx EXCEPT !.phase = "out",
                        !.out = ComputeTimeMultiplier(fx.today, fx.target)]
    /\ UNCHANGED <<lifeVars, dq>>

\* the same night priced again one day later (today = dt.now().date())
TimeDayPasses ==
    /\ fx.phase = "out"
    /\ fx.target - fx.today > 0 - MaxDaysAway
    /\ fx' = [fx EXCEPT !.today = @ + 1,
                        !.passed = @ + 1,
                        !.out = ComputeTimeMultiplier(fx.today + 1, fx.target)]
    /\ UNCHANGED <<lifeVars, dq>>

NextTime ==
    \/ TimeApply
    \/ TimeDayPasses

SpecTime == InitTime /\ [][NextTime]_vars


\* ---- dynamic pricing (worker/core/dynamic_pricing.py, last_minute.py) ----

\* calendars of up to this many days are tried
MaxCalDays == 3

\* occupancy_signal=None of compute_last_minute_multiplier
NoSignal == 0 - 100000

\* _clamp
Clamp(value, low, high) == Max(low, Min(high, value))

\* a compute_demand_adjustment that rounds without clamping
ComputeDemandAdjustment_NoClamp(score) == RoundDiv(9400 + score, 10)

\* compute_demand_adjustment: score and result in thousandths
\* (1.0 - (0.6 - s) * 0.10 is (9400 + s) / 10 thousandths)
ComputeDemandAdjustment(score) ==
    RoundDiv(Clamp(9400 + score, 9000, 10500), 10)

\* round(_clamp(time_multiplier * demand_adjustment, 0.65, 1.05), 3), with the
\* time multiplier in hundredths and the result in thousandths; a product
\* that ends in exactly 5 in the fourth decimal goes to the even thousandth
\* here, where the binary float may lie on either side of the tie
FinalMultiplier(timeMult, demandAdj) ==
    RoundDiv(Clamp(timeMult * demandAdj, 65000, 105000), 100)

\* compute_last_minute_multiplier, in thousandths
ComputeLastMinuteMultiplier(checkin, target, occupancy) ==
    LET timeMult == ComputeTimeMultiplier(checkin, target)
        score == IF occupancy = NoSignal THEN 600 ELSE occupancy
        final == timeMult * ComputeDemandAdjustment(score)
    IN IF final < 65000 THEN 650
       ELSE IF final > 105000 THEN 1050
       ELSE RoundDiv(final, 100)

\* the k-th smallest element of a sequence of integers
KthSmallest(s, k) ==
    CHOOSE v \in {s[i] : i \in DOMAIN s} :
        /\ Cardinality({i \in DOMAIN s : s[i] < v}) < k
        /\ Cardinality({i \in DOMAIN s : s[i] <= v}) >= k

\* twice statistics.median of a non-empty sequence
Median2(s) ==
    LET n == Len(s)
    IN IF n % 2 = 1 THEN 2 * KthSmallest(s, (n + 1) \div 2)
       ELSE KthSmallest(s, n \div 2) + KthSmallest(s, n \div 2 + 1)

\* the medians of the days j /= idx of range(start, end) that have one
WindowVals(days, idx) ==
    LET lo == Max(1, idx - 3)
        hi == Min(Len(days), idx + 3)
        js == {j \in lo..hi : j /= idx /\ days[j].median /= NoPrice}
        order == SortedSeq(js)
    IN [i \in 1..Cardinality(js) |-> days[order[i]].median]

\* twice the baseline of day idx: the median of its window, else the median
\* of all known medians, else NoPrice
Baseline2(days, idx) ==
    LET window == WindowVals(days, idx)
        knownIdx == SortedSeq({j \in DOMAIN days : days[j].median /= NoPrice})
        known == [i \in DOMAIN knownIdx |-> days[knownIdx[i]].median]
    IN IF Len(window) > 0 THEN Median2(window)
       ELSE IF Len(known) > 0 THEN Median2(known)
       ELSE NoPrice

\* a confidence that is high on the comps count alone
Confidence_CompsOnly(compsUsed, hasMedian) ==
    IF compsUsed >= 25 THEN "high"
    ELSE IF compsUsed >= 12 THEN "medium"
    ELSE "low"

\* the confidence of one day
Confidence(compsUsed, hasMedian) ==
    IF compsUsed >= 25 /\ hasMedian THEN "high"
    ELSE IF compsUsed >= 12 THEN "medium"
    ELSE "low"

\* one row of compute_market_demand_v2; demandScore is in thousandths
DemandRow(days, idx) ==
    LET day == days[idx]
        b2 == Baseline2(days, idx)
        hasPremium == day.median /= NoPrice /\ b2 /= NoPrice /\ b2 > 0
        \* premium_index = pn / pd
        pd == IF hasPremium THEN b2 ELSE 1
        pn == IF hasPremium
              THEN Clamp(4 * (2 * day.median - b2), 0 - b2, b2) ELSE 0
        deltaPct == IF hasPremium
                    THEN RoundDiv(100 * (2 * day.median - b2), b2) ELSE 0
        premiumReason == IF deltaPct >= 5 \/ deltaPct <= 0 - 5
                         THEN <<"median_vs_surrounding">> ELSE <<>>
        hasSpread == day.median /= NoPrice /\ day.p25 /= NoPrice
                     /\ day.p75 /= NoPrice
        m == Max(day.median, 1)
        \* tightness_index = tn / td
        td == IF hasSpread THEN 18 * m ELSE 1
        tn == IF hasSpread
              THEN Clamp(18 * m - 100 * (day.p75 - day.p25), 0 - td, td)
              ELSE 0
        spreadReason == IF ~hasSpread THEN <<>>
                        ELSE IF 5 * tn >= td THEN <<"tight_spread">>
                        ELSE IF 5 * tn <= 0 - td THEN <<"wide_spread">>
                        ELSE <<>>
        weekday == (day.date - 1) % 7
        weekendBoost == IF weekday \in {4, 5} THEN 8
                        ELSE IF weekday = 6 THEN 4 ELSE 0
        weekendReason == IF weekendBoost > 0 THEN <<"weekend_boost">> ELSE <<>>
        flagBoost == IF "peak" \in day.flags \/ "event" \in day.flags THEN 15
                     ELSE IF "low_demand" \in day.flags THEN 0 - 15 ELSE 0
        flagReason == IF flagBoost > 0 THEN <<"peak_event">>
                      ELSE IF flagBoost < 0 THEN <<"low_demand">> ELSE <<>>
        den == 100 * pd * td
        num == Clamp(50 * pd * td + 20 * pn * td + 15 * tn * pd
                     + (weekendBoost + flagBoost) * pd * td, 0, den)
        confidence == Confidence(day.compsUsed, day.median /= NoPrice)
        lowReason == IF confidence = "low" THEN <<"low_comps">> ELSE <<>>
        reasons == premiumReason \o spreadReason \o weekendReason
                   \o flagReason \o lowReason
    IN [date |-> day.date,
        demandScore |-> RoundDiv(10 * num, pd * td),
        confidence |-> confidence,
        reasons |-> IF reasons = <<>> THEN <<"neutral">> ELSE reasons]

\* compute_market_demand_v2
ComputeMarketDemandV2(days) == [i \in DOMAIN days |-> DemandRow(days, i)]

\* demand_by_date[day_date]: a later row of the same date replaces an earlier
DemandByDate(rows, d) ==
    rows[CHOOSE i \in DOMAIN rows :
            /\ rows[i].date = d
            /\ \A j \in DOMAIN rows : rows[j].date = d => j <= i]

\* an adjusted row that prices the day with the time multiplier alone
AdjustRow_TimeOnly(today, day, demand) ==
    LET timeMult == ComputeTimeMultiplier(today, day.date)
        demandAdj == ComputeDemandAdjustment(demand.demandScore)
        final == FinalMultiplier(timeMult, demandAdj)
        hasBase == day.baseDailyPrice /= NoPrice
    IN [date |-> day.date,
        baseDailyPrice |-> day.baseDailyPrice,
        demandScore |-> demand.demandScore,
        confidence |-> demand.confidence,
        timeMultiplier |-> timeMult * 10,
        demandAdjustment |-> demandAdj,
        finalMultiplier |-> final,
        reasons |-> demand.reasons,
        priceAfterTimeAdjustment |->
            IF hasBase THEN RoundDiv(day.baseDailyPrice * timeMult, 100)
            ELSE NoPrice,
        flags |-> IF ~hasBase THEN day.flags \cup {"missing_data"}
                  ELSE IF timeMult < 100
                  THEN day.flags \cup {"last_minute_discount"}
                  ELSE day.flags]

\* one row of compute_dynamic_pricing_adjustment; multipliers in thousandths,
\* prices in whole currency units
AdjustRow(today, day, demand) ==
    LET timeMult == ComputeTimeMultiplier(today, day.date)
        demandAdj == ComputeDemandAdjustment(demand.demandScore)
        final == FinalMultiplier(timeMult, demandAdj)
        hasBase == day.baseDailyPrice /= NoPrice
    IN [date |-> day.date,
        baseDailyPrice |-> day.baseDailyPrice,
        demandScore |-> demand.demandScore,
        confidence |-> demand.confidence,
        timeMultiplier |-> timeMult * 10,
        demandAdjustment |-> demandAdj,
        finalMultiplier |-> final,
        reasons |-> IF timeMult < 100
                    THEN <<"last_minute_window">> \o demand.reasons
                    ELSE demand.reasons,
        priceAfterTimeAdjustment |->
            IF hasBase THEN RoundDiv(day.baseDailyPrice * final, 1000)
            ELSE NoPrice,
        flags |-> IF ~hasBase THEN day.flags \cup {"missing_data"}
                  ELSE IF final < 1000
                  THEN day.flags \cup {"last_minute_discount"}
                  ELSE day.flags]

\* compute_dynamic_pricing_adjustment
ComputeDynamicPricingAdjustment(today, days) ==
    LET demandRows == ComputeMarketDemandV2(days)
    IN [i \in DOMAIN days |->
          AdjustRow(today, days[i], DemandByDate(demandRows, days[i].date))]

\* the kinds of calendar day tried: with and without a base price, a median,
\* a spread, and comps counts on both sides of 12 and 25
DayKinds ==
    { [baseDailyPrice |-> NoPrice, compsUsed |-> 0, median |-> NoPrice,
       p25 |-> NoPrice, p75 |-> NoPrice, flags |-> {"missing_data"}],
      [baseDailyPrice |-> NoPrice, compsUsed |-> 5, median |-> NoPrice,
       p25 |-> NoPrice, p75 |-> NoPrice, flags |-> {}],
      [baseDailyPrice |-> 200, compsUsed |-> 30, median |-> 200,
       p25 |-> 180, p75 |-> 210, flags |-> {}],
      [baseDailyPrice |-> 240, compsUsed |-> 12, median |-> 240,
       p25 |-> 180, p75 |-> 210, flags |-> {"peak"}],
      [baseDailyPrice |-> 95, compsUsed |-> 30, median |-> NoPrice,
       p25 |-> NoPrice, p75 |-> NoPrice, flags |-> {"low_demand"}],
      [baseDailyPrice |-> 150, compsUsed |-> 11, median |-> 150,
       p25 |-> 100, p75 |-> 250, flags |-> {"low_demand"}] }

\* the first day of a calendar: a Thursday and a Saturday
CalendarStarts == {739617, 739619}

\* today, as days before the first day of the calendar
TodayOffsets == {0 - 1, 2, 5, 10, 20, 31}

\* demand scores and occupancy signals, in thousandths, in and out of [0, 1]
DemandScores == {0 - 5000, 0, 300, 600, 900, 1000, 99000, NoSignal}

\* calendar_inputs of n consecutive days from start
CalendarInputs(start, kinds) ==
    [i \in DOMAIN kinds |->
        [date |-> start + i - 1,
         baseDailyPrice |-> kinds[i].baseDailyPrice,
         compsUsed |-> kinds[i].compsUsed,
         median |-> kinds[i].median,
         p25 |-> kinds[i].p25,
         p75 |-> kinds[i].p75,
         flags |-> kinds[i].flags]]

InitDynamic ==
    /\ IdleLife
    /\ \E start \in CalendarStarts, off \in TodayOffsets,
          n \in 1..MaxCalDays, score \in DemandScores :
          \E kinds \in [1..n -> DayKinds] :
             /\ score /= NoSignal => n = 1
             /\ fx = [fn |-> "dynamic_pricing", phase |-> "in",
                      today |-> start - off,
                      days |-> CalendarInputs(start, kinds),
                      score |-> score, out |-> <<>>]

\* a call of compute_market_demand_v2
MarketDemandApply ==
    /\ fx.phase = "in"
    /\ fx.score = NoSignal
    /\ fx' = [fx EXCEPT !.fn = "compute_market_demand_v2",
                        !.phase = "out",
                        !.out = ComputeMarketDemandV2(fx.days)]
    /\ UNCHANGED <<lifeVars, dq>>

\* a call of compute_dynamic_pricing_adjustment
DynamicApply ==
    /\ fx.phase = "in"
    /\ fx.score = NoSignal
    /\ fx' = [fx EXCEPT !.fn = "compute_dynamic_pricing_adjustment",
                        !.phase = "out",
                        !.out = ComputeDynamicPricingAdjustment(fx.today,
                                                                fx.days)]
    /\ UNCHANGED <<lifeVars, dq>>

\* a call of compute_demand_adjustment with any score
DemandAdjustApply ==
    /\ fx.phase = "in"
    /\ fx.score /= NoSignal
    /\ fx' = [fx EXCEPT !.fn = "compute_demand_adjustment",
                        !.phase = "out",
                        !.out = ComputeDemandAdjustment(fx.score)]
    /\ UNCHANGED <<lifeVars, dq>>

\* a call of compute_last_minute_multiplier for the first day
LastMinuteApply ==
    /\ fx.phase = "in"
    /\ Len(fx.days) = 1
    /\ fx' = [fx EXCEPT !.fn = "compute_last_minute_multiplier",
                        !.phase = "out",
                        !.out = ComputeLastMinuteMultiplier(
                                    fx.today, fx.days[1].date, fx.score)]
    /\ UNCHANGED <<lifeVars, dq>>

NextDynamic ==
    \/ MarketDemandApply
    \/ DynamicApply
    \/ DemandAdjustApply
    \/ LastMinuteApply

SpecDynamic == InitDynamic /\ [][NextDynamic]_vars


\* ---- filter tiers and the result summary (worker/core/similarity.py, -----
\*      worker/scraper/price_estimator.py)

\* scrape passes of up to this many nights are tried
MaxStageNights == 10

\* the least number of candidates that settles the strict and the medium tier
STRICT_MIN == 8
MEDIUM_MIN == 5

\* filter_similar_candidates, on the numbers of candidates collected, within
\* the strict tolerances and within the medium tolerances
FilterSimilarCandidates(total, strict, medium) ==
    IF total = 0 THEN [stage |-> "empty", filtered |-> 0]
    ELSE IF strict >= STRICT_MIN THEN [stage |-> "strict", filtered |-> strict]
    ELSE IF medium >= MEDIUM_MIN THEN [stage |-> "medium", filtered |-> medium]
    ELSE [stage |-> "fallback_all", filtered |-> total]

\* what one night's search collects: candidates with a url and a positive
\* price, of which strict lie within the strict and medium within the medium
\* tolerances (the strict tolerances are the narrower ones)
NightProfiles ==
    { [total |-> 14, strict |-> 8, medium |-> 8],
      [total |-> 20, strict |-> 20, medium |-> 20],
      [total |-> 14, strict |-> 7, medium |-> 9],
      [total |-> 14, strict |-> 3, medium |-> 4],
      [total |-> 0, strict |-> 0, medium |-> 0] }

\* estimate_base_price_for_date: the DayResult of a night whose search
\* collects the comparables of profile
EstimateDay(d, profile, price) ==
    IF profile.total = 0
    THEN [date |-> d,
          median_price |-> NoPrice,
          comps_collected |-> 0,
          filter_stage |-> "empty",
          flags |-> {"missing_data"},
          is_sampled |-> TRUE,
          is_weekend |-> IsWeekend(d)]
    ELSE [date |-> d,
          median_price |-> price,
          comps_collected |-> profile.total,
          filter_stage |-> FilterSimilarCandidates(profile.total,
                               profile.strict, profile.medium).stage,
          flags |-> {},
          is_sampled |-> TRUE,
          is_weekend |-> IsWeekend(d)]

\* _build_daily_transparent_result: compsSummary
CompsSummary(results) ==
    [filterStage |-> "day_by_day",
     sampledDays |-> Cardinality({i \in DOMAIN results : results[i].is_sampled}),
     interpolatedDays |->
         Cardinality({i \in DOMAIN results :
                         ~results[i].is_sampled
                         /\ results[i].median_price /= NoPrice}),
     missingDays |->
         Cardinality({i \in DOMAIN results :
                         results[i].median_price = NoPrice})]

\* run_scrape over a window in which every night is queried, then
\* process_job: the summary and the calendar of the result
StageResult(checkin, profiles) ==
    LET n == Len(profiles)
        nights == DaterangeNights(checkin, checkin + n)
        indices == SampleIndices(n)
        sampled == [k \in DOMAIN indices |->
                      LET i == indices[k] + 1
                      IN EstimateDay(nights[i], profiles[i],
                                     MarketPrice("ramp", i - 1))]
        results == InterpolateMissingDays(sampled, nights)
    IN [dailyResults |-> results,
        compsSummary |-> CompsSummary(results),
        calendar |-> BuildScrapeCalendar(results, checkin, checkin + n)]

InitStage ==
    /\ IdleLife
    /\ \E c \in Checkins, n \in 1..MaxStageNights,
          base \in NightProfiles, odd \in NightProfiles :
          \E oddAt \in 1..n :
             fx = [fn |-> "run_scrape", phase |-> "in", checkin |-> c,
                   profiles |-> [i \in 1..n |-> IF i = oddAt THEN odd
                                                 ELSE base],
                   out |-> <<>>]

\* one scrape pass and the assembly of its result
StageApply ==
    /\ fx.phase = "in"
    /\ fx' = [fx EXCEPT !.phase = "out",
                        !.out = StageResult(fx.checkin, fx.profiles)]
    /\ UNCHANGED <<lifeVars, dq>>

NextStage == StageApply

SpecStage == InitStage /\ [][NextStage]_vars


\* ---- build_stay_length_averages (worker/core/discounts.py) ---------------

\* base price lists of up to this many nights are tried
MaxStayPrices == 2

\* the nightly base prices averaged
StayBasePrices ==
    {<<>>} \cup UNION {[1..n -> DiscountBases] : n \in 1..MaxStayPrices}

\* average_refundable_price_for_stay
AverageRefundablePriceForStay(basePrices, stay, policy) ==
    IF Len(basePrices) = 0 THEN 0
    ELSE LET prices == [i \in DOMAIN basePrices |->
                          ApplyDiscount(basePrices[i], stay,
                                        policy).refundablePrice]
         IN RoundDiv(SumSeq(prices), Len(prices))

\* build_stay_length_averages: the representative stay lengths
StayPoints(totalDays) ==
    {1, totalDays} \cup (IF totalDays >= 7 THEN {7} ELSE {})
                   \cup (IF totalDays >= 28 THEN {28} ELSE {})

\* build_stay_length_averages
BuildStayLengthAverages(basePrices, totalDays, policy) ==
    IF totalDays < 1 THEN <<>>
    ELSE LET points == SortedSeq(StayPoints(totalDays))
         IN [i \in DOMAIN points |->
               [stayLength |-> points[i],
                avgNightly |-> AverageRefundablePriceForStay(
                                   basePrices, points[i], policy),
                lengthDiscountPct |->
                    IF points[i] >= 28 /\ policy.monthlyDiscountPct > 0
                    THEN policy.monthlyDiscountPct
                    ELSE IF points[i] >= 7 /\ policy.weeklyDiscountPct > 0
                    THEN policy.weeklyDiscountPct
                    ELSE 0]]

InitStay ==
    /\ IdleLife
    /\ \E basePrices \in StayBasePrices, totalDays \in StayLengths,
          policy \in DiscountPolicies :
          fx = [fn |-> "build_stay_length_averages", phase |-> "in",
                basePrices |-> basePrices, totalDays |-> totalDays,
                policy |-> policy, out |-> <<>>]

\* _build_scrape_calendar: the stay-length averages of the summary
StayApply ==
    /\ fx.phase = "in"
    /\ fx' = [fx EXCEPT !.phase = "out",
                        !.out = BuildStayLengthAverages(fx.basePrices,
                                    fx.totalDays, fx.policy)]
    /\ UNCHANGED <<lifeVars, dq>>

NextStay == StayApply

SpecStay == InitStay /\ [][NextStay]_vars


\* ==========================================================================
\* Properties
\* ==========================================================================

\* process_job of worker w is in its finally block: every write is behind it
Returning(w) == pc[w] \in {"finally", "join"}

\* worker w still holds the lease of the job it claimed
HoldsLease(w) == jobs[cur[w].job].token = cur[w].token

\* heartbeat threads of worker w that are still alive
LiveThreads(w) ==
    (IF hb[w].state \in {"waiting", "calling"} THEN 1 ELSE 0)
        + Cardinality(orphans[w])

\* C1: a heartbeat, complete_job or fail_job issued with a token other than
\* the one recorded on the job leaves the job's status, result and error
\* untouched.
C1_StaleWritesRejected ==
    [][(/\ lastOp'.kind \in {"heartbeat", "complete_job", "fail_job"}
        /\ lastOp'.token # jobs[lastOp'.job].token)
       => LET j == lastOp'.job
          IN /\ jobs'[j].status = jobs[j].status
             /\ jobs'[j].summary = jobs[j].summary
             /\ jobs'[j].error = jobs[j].error
             /\ jobs'[j].token = jobs[j].token]_vars

\* C1 witness: a fail_job was just issued by a worker that lost its lease to
\* a reclaiming worker, and the job is still running under the new token.
C1_Witness ==
    \E j \in Jobs :
        /\ lastOp.kind = "fail_job"
        /\ lastOp.job = j
        /\ lastOp.token # jobs[j].token
        /\ jobs[j].status = "running"
        /\ jobs[j].attempts >= 2

\* C2: status moves only queued -> running -> ready | error; the token
\* changes only by a claim of a queued job or of a running job whose
\* heartbeat is stale, and that leaves the job running; a ready or error job
\* keeps its status whatever is written afterwards.
C2_StatusMachine ==
    [][\A j \in Jobs :
         LET a == jobs[j]
             b == jobs'[j]
         IN /\ a.status # b.status =>
                  <<a.status, b.status>> \in {<<"queued", "running">>,
                                              <<"running", "ready">>,
                                              <<"running", "error">>}
            /\ a.token # b.token =>
                  /\ a.status = "queued" \/ (a.status = "running" /\ ~a.fresh)
                  /\ b.status = "running"
            /\ a.status \in Terminal => b.status = a.status]_vars

\* C2 witness: a job that went through a re-claim has ended in error, and a
\* worker whose lease was taken over has just written to it afterwards.
C2_Witness ==
    \E j \in Jobs :
        /\ jobs[j].status = "error"
        /\ jobs[j].attempts >= 2
        /\ lastOp.kind = "fail_job"
        /\ lastOp.job = j
        /\ lastOp.token # jobs[j].token

C4_HeartbeatEndsWithJob ==
    \A w \in Workers :
        /\ pc[w] \in {"poll", "claimed"} => LiveThreads(w) = 0
        /\ LiveThreads(w) <= 1

\* C5: a claimed job whose attempt counter exceeds MAX_ATTEMPTS is failed
\* with the claim token by the worker's next step, which returns to polling
\* without starting a heartbeat thread, looking up the cache or querying.
C5_AttemptsExceededNotProcessed ==
    [][\A w \in Workers :
         (/\ pc[w] = "claimed"
          /\ cur[w].attempts > MAX_ATTEMPTS
          /\ pc'[w] # "claimed")
         => /\ pc'[w] = "poll"
            /\ lastOp' = Op("fail_job", cur[w].job, cur[w].token)
            /\ HoldsLease(w) => jobs'[cur[w].job].status = "error"
            /\ hb'[w] = NoHb
            /\ run'[w] = NoRun
            /\ cache' = cache]_vars

\* C5 witness: a job was claimed more than MAX_ATTEMPTS times and has been
\* written to error by the poll loop.
C5_Witness ==
    \E j \in Jobs :
        /\ jobs[j].attempts > MAX_ATTEMPTS
        /\ jobs[j].status = "error"
        /\ jobs[j].error = "max_attempts"

\* C6: a run in which at least one night yielded a price, and in which no
\* unexpected exception was raised, ends with the job ready and its result
\* stored (when the lease is still held); only a run without any price is
\* failed for lack of data.
C6_PartialDataCompletes ==
    \A w \in Workers :
        Returning(w) =>
            /\ (/\ run[w].queries >= 1
                /\ run[w].result = "priced"
                /\ run[w].raised # "Exception"
                /\ HoldsLease(w))
               => /\ jobs[cur[w].job].status = "ready"
                  /\ jobs[cur[w].job].summary = "priced"
            /\ run[w].failMsg = "busy_no_data" => run[w].result # "priced"

\* C7: the day results of a scrape pass, and the calendar built from them,
\* hold exactly one row per night of [checkin, checkout), in ascending order.
C7_RowsCoverWindow ==
    dq.phase = "done" =>
        /\ Len(dq.results) = dq.checkout - dq.checkin
        /\ \A i \in 1..Len(dq.results) : dq.results[i].date = dq.checkin + i - 1
        /\ dq.calendar # <<>> =>
              /\ Len(dq.calendar) = dq.checkout - dq.checkin
              /\ \A i \in 1..Len(dq.calendar) :
                    dq.calendar[i].date = dq.checkin + i - 1

\* C7 witness: a finished pass over a sampled window with a priced night, a
\* failed night and nights that were never queried, and a calendar built.
C7_Witness ==
    /\ dq.phase = "done"
    /\ dq.checkout - dq.checkin > MAX_SAMPLE_QUERIES
    /\ dq.calendar # <<>>
    /\ \E i \in 1..Len(dq.results) : dq.results[i].is_sampled
    /\ \E i \in 1..Len(dq.results) :
          dq.results[i].flags = {"interpolated", "missing_data"}
    /\ \E i \in 1..Len(dq.results) : dq.results[i].flags = {"interpolated"}
    /\ Len(dq.sampled) < Len(dq.indices)

\* C9: a cache hit completes the job with the cached summary (when the lease
\* is still held), without any pipeline query and without a cache write; a
\* hit is never taken from an expired entry.
C9_CacheHitCompletes ==
    \A w \in Workers :
        /\ (Returning(w) /\ run[w].cacheHit) =>
              /\ run[w].queries = 0
              /\ run[w].cacheWrites = 0
              /\ HoldsLease(w) =>
                    /\ jobs[cur[w].job].status = "ready"
                    /\ jobs[cur[w].job].summary = "cached"
        /\ (pc[w] = "cache_complete") => run[w].result = "cached"

\* C10: a job with a listing URL is never completed from the cache
\* pre-check, its scrape runs before it is completed, and a run that yielded
\* prices (and raised no unexpected exception) writes the cache.
C10_UrlModeScrapesAndCaches ==
    \A w \in Workers :
        (Returning(w) /\ input[cur[w].job].url) =>
            /\ (HoldsLease(w) /\ jobs[cur[w].job].status = "ready")
                  => ~run[w].cacheHit /\ run[w].queries >= 1
            /\ (run[w].result = "priced" /\ run[w].raised # "Exception")
                  => run[w].cacheWrites >= 1

\* C12: two jobs whose fingerprint payloads are equal agree on every input
\* that affects the calendar, the price floor and ceiling of the discount
\* policy included.
C12_SameKeySameInputs ==
    (fx.fn = "compute_cache_key" /\ fx.phase = "out" /\ fx.keyA = fx.keyB)
        => \A k \in OutputInputs : fx.a[k] = fx.b[k]

\* C13: the backoff of every worker stays between the base poll interval and
\* 12 times the base; a poll without work waits the current backoff and then
\* multiplies it by 1.5, a loop error waits it and then multiplies it by 2,
\* both capped; a worker holding a freshly claimed job has its backoff at the
\* base; no other step changes the backoff.
C13_BackoffBounded ==
    [][\A w \in Workers :
         /\ BasePoll <= backoff[w] /\ backoff[w] <= MaxBackoff
         /\ BasePoll <= backoff'[w] /\ backoff'[w] <= MaxBackoff
         /\ pc'[w] = "claimed" => backoff'[w] = BasePoll
         /\ IF lastOp'.worker = w /\ lastOp'.kind = "claim_none"
            THEN /\ lastOp'.wait = backoff[w]
                 /\ 2 * backoff'[w] = Min(3 * backoff[w], 2 * MaxBackoff)
            ELSE IF lastOp'.worker = w /\ lastOp'.kind = "loop_error"
            THEN /\ lastOp'.wait = backoff[w]
                 /\ backoff'[w] = Min(2 * backoff[w], MaxBackoff)
            ELSE IF pc[w] = "poll" /\ pc'[w] = "claimed"
            THEN backoff'[w] = BasePoll
            ELSE backoff'[w] = backoff[w]]_vars

\* C13 witness: one worker has just polled without work, waited less than
\* the cap and now has its backoff at the cap, while another worker holds a
\* freshly claimed job with its backoff at the base.
C13_Witness ==
    \E w1 \in Workers, w2 \in Workers :
        /\ lastOp.kind = "claim_none"
        /\ lastOp.worker = w1
        /\ lastOp.wait < MaxBackoff
        /\ backoff[w1] = MaxBackoff
        /\ pc[w2] = "claimed"
        /\ backoff[w2] = BasePoll

\* C14: for a job, in URL mode or in criteria mode, whose date range is
\* invalid (checkout not after checkin) or longer than MAX_NIGHTS, no
\* collaborator call is ever issued, and the range is rejected.
C14_InvalidRangeNoNetwork ==
    (fx.fn = "pipeline_entry" /\ (fx.nights < 1 \/ fx.nights > MAX_NIGHTS))
        => /\ fx.calls = <<>>
           /\ fx.phase = "done" => fx.outcome \in {"invalid_range", "value_error"}

\* the call of apply_discount under study has returned
DiscountDone == fx.fn = "apply_discount" /\ fx.phase = "out"

\* C15 as stated: in every stacking mode the refundable and the
\* non-refundable discount fraction are at most maxTotalDiscountPct / 100.
C15_DiscountsWithinCap ==
    DiscountDone =>
        /\ fx.out.refundableDiscount <= Frac(fx.policy.maxTotalDiscountPct)
        /\ fx.out.nonRefundableDiscount <= Frac(fx.policy.maxTotalDiscountPct)

\* C15 as amended: the refundable discount fraction is at most
\* maxTotalDiscountPct / 100 in every stacking mode, and the non-refundable
\* one in compound and additive mode; in best_only mode the non-refundable
\* fraction is not capped.
C15_DiscountsWithinCapExceptBestOnly ==
    DiscountDone =>
        /\ fx.out.refundableDiscount <= Frac(fx.policy.maxTotalDiscountPct)
        /\ fx.policy.stackingMode # "best_only" =>
              fx.out.nonRefundableDiscount <= Frac(fx.policy.maxTotalDiscountPct)

\* C15 witness: a best_only policy whose monthly discount is above the cap:
\* the refundable fraction is cut to the cap, the non-refundable one is not.
C15_Witness ==
    /\ DiscountDone
    /\ fx.policy.stackingMode = "best_only"
    /\ fx.stay >= 28
    /\ fx.policy.monthlyDiscountPct > fx.policy.maxTotalDiscountPct
    /\ fx.out.refundableDiscount = Frac(fx.policy.maxTotalDiscountPct)
    /\ fx.out.nonRefundableDiscount > Frac(fx.policy.maxTotalDiscountPct)

\* C16: apply_discount follows the reference policy: the length discount is
\* the monthly percentage from 28 nights on when it is positive, else the
\* weekly one from 7 nights on when it is positive, else none (none for a
\* stay of 0 nights or less); the non-refundable component is 0 for a
\* refundable policy; the refundable discount is min(length, cap); the
\* non-refundable discount is max(length, nonRefundable) in best_only,
\* min(length + nonRefundable, cap) in additive and
\* min(1 - (1 - length)(1 - nonRefundable), cap) in compound mode; each price
\* is the integer nearest to base x (1 - discount); base 200, 30 nights,
\* weekly 8, monthly 18, non-refundable 10, compound, cap 40 gives 164, 148.
C16_ApplyDiscountReference ==
    DiscountDone =>
        LET p == fx.policy
            len == IF fx.stay >= 28 /\ p.monthlyDiscountPct > 0
                   THEN 100 * p.monthlyDiscountPct
                   ELSE IF fx.stay >= 7 /\ p.weeklyDiscountPct > 0
                   THEN 100 * p.weeklyDiscountPct
                   ELSE 0
            nonRef == IF p.refundable THEN 0
                      ELSE 100 * p.nonRefundableDiscountPct
            cap == 100 * p.maxTotalDiscountPct
            compound == 10000 - ((10000 - len) * (10000 - nonRef)) \div 10000
            expected ==
                CASE p.stackingMode = "best_only" ->
                        IF len >= nonRef THEN len ELSE nonRef
                  [] p.stackingMode = "additive" ->
                        IF len + nonRef <= cap THEN len + nonRef ELSE cap
                  [] p.stackingMode = "compound" ->
                        IF compound <= cap THEN compound ELSE cap
            Nearest(price, d) ==
                LET diff == 10000 * price - fx.base * (10000 - d)
                IN 0 - 5000 <= diff /\ diff <= 5000
        IN /\ fx.stay <= 0 => len = 0
           /\ fx.out.refundableDiscount = (IF len <= cap THEN len ELSE cap)
           /\ fx.out.nonRefundableDiscount = expected
           /\ Nearest(fx.out.refundablePrice, fx.out.refundableDiscount)
           /\ Nearest(fx.out.nonRefundablePrice, fx.out.nonRefundableDiscount)
           /\ (/\ fx.base = 200 /\ fx.stay = 30 /\ p.weeklyDiscountPct = 8
               /\ p.monthlyDiscountPct = 18 /\ ~p.refundable
               /\ p.nonRefundableDiscountPct = 10
               /\ p.stackingMode = "compound" /\ p.maxTotalDiscountPct = 40)
              => /\ fx.out.refundablePrice = 164
                 /\ fx.out.nonRefundablePrice = 148

\* C16 witness: the worked example has been computed: 30 nights, monthly 18
\* preferred to weekly 8, compounded with non-refundable 10 under a cap of 40.
C16_Witness ==
    /\ DiscountDone
    /\ fx.base = 200 /\ fx.stay = 30
    /\ fx.policy = [weeklyDiscountPct |-> 8, monthlyDiscountPct |-> 18,
                    refundable |-> FALSE, nonRefundableDiscountPct |-> 10,
                    stackingMode |-> "compound", maxTotalDiscountPct |-> 40]
    /\ fx.out.refundableDiscount = 1800
    /\ fx.out.nonRefundableDiscount = 2620
    /\ fx.out.nonRefundablePrice = 148

\* C17: compute_sample_dates(N, maxQueries) returns all of 0..N-1 in order
\* when N <= maxQueries; otherwise its result is strictly ascending (sorted,
\* no duplicates), lies within 0..N-1, starts with 0, ends with N-1 and has
\* at most maxQueries + 2 elements.
C17_SampleDates ==
    (fx.fn = "compute_sample_dates" /\ fx.phase = "out") =>
        IF fx.n <= fx.maxQueries
        THEN /\ Len(fx.out) = fx.n
             /\ \A i \in 1..Len(fx.out) : fx.out[i] = i - 1
        ELSE /\ \A i \in 1..(Len(fx.out) - 1) : fx.out[i] < fx.out[i + 1]
             /\ \A i \in 1..Len(fx.out) : fx.out[i] >= 0 /\ fx.out[i] <= fx.n - 1
             /\ Len(fx.out) >= 1
             /\ fx.out[1] = 0
             /\ fx.out[Len(fx.out)] = fx.n - 1
             /\ Len(fx.out) <= fx.maxQueries + 2

\* C17 witness: a window longer than the budget was sampled: some nights are
\* left out, and the last night was added beside the evenly spaced ones.
C17_Witness ==
    /\ fx.fn = "compute_sample_dates" /\ fx.phase = "out"
    /\ fx.n > fx.maxQueries
    /\ Len(fx.out) < fx.n
    /\ Len(fx.out) = fx.maxQueries + 1
    /\ fx.out[Len(fx.out)] - fx.out[Len(fx.out) - 1] < fx.out[2] - fx.out[1]

\* the call of interpolate_missing_days under study has returned
InterpDone == fx.fn = "interpolate_missing_days" /\ fx.phase = "out"

\* the sampled results of the call that carry a price
PricedSamples ==
    {fx.sampled[i] : i \in {k \in 1..Len(fx.sampled) :
                               fx.sampled[k].median_price # NoPrice}}

\* the rows of the result for nights that were not successfully sampled
FilledRows ==
    {fx.out[i] : i \in {k \in 1..Len(fx.out) :
                           \A s \in PricedSamples : s.date # fx.out[k].date}}

\* the nearest priced sample at or before / at or after a night
AnchorBefore(night) ==
    CHOOSE s \in PricedSamples :
        /\ s.date <= night
        /\ \A t \in PricedSamples : t.date <= night => t.date <= s.date
AnchorAfter(night) ==
    CHOOSE s \in PricedSamples :
        /\ s.date >= night
        /\ \A t \in PricedSamples : t.date >= night => t.date >= s.date

\* the filled-in price of a row follows the claim, exactly (slack = 0) or to
\* the nearest cent (slack = 1)
FilledAsClaimed(row, slack) ==
    LET hasBefore == \E s \in PricedSamples : s.date <= row.date
        hasAfter == \E s \in PricedSamples : s.date >= row.date
    IN IF ~hasBefore
       THEN row.median_price = AnchorAfter(row.date).median_price
       ELSE IF ~hasAfter
       THEN row.median_price = AnchorBefore(row.date).median_price
       ELSE LET b == AnchorBefore(row.date)
                a == AnchorAfter(row.date)
                span == a.date - b.date
                offset == row.date - b.date
                diff == 2 * (span * row.median_price
                             - (span * b.median_price
                                + offset * (a.median_price - b.median_price)))
            IN /\ 0 - slack * span <= diff /\ diff <= slack * span
               /\ Min(b.median_price, a.median_price) <= row.median_price
               /\ row.median_price <= Max(b.median_price, a.median_price)

\* the worked example: anchors 100 at day 0 and 200 at day 10 give 150 at
\* day 5, 100 at day -1 and 200 at day 15 (day -1 is the window's first night)
InterpExample ==
    LET day(k) == fx.start + 1 + k
        at(k) == CHOOSE r \in FilledRows : r.date = day(k)
    IN ({<<s.date, s.median_price>> : s \in PricedSamples}
            = {<<day(0), 10000>>, <<day(10), 20000>>})
       => /\ at(5).median_price = 15000
          /\ at(0 - 1).median_price = 10000
          /\ at(15).median_price = 20000

\* C18 as stated: when an anchor exists, every night not successfully
\* sampled gets exactly before + (offsetDays / spanDays) x (after - before)
\* between its nearest anchors, the first anchor's price before the first
\* anchor and the last anchor's price after the last, hence a price between
\* the bracketing anchor prices.
C18_InterpolationExact ==
    (InterpDone /\ PricedSamples # {}) =>
        /\ \A row \in FilledRows : FilledAsClaimed(row, 0)
        /\ InterpExample

\* C18 as amended: the filled-in price is that value rounded to two decimals
\* (the nearest cent); before the first anchor and after the last it is the
\* first / last anchor's price; it lies between the bracketing anchor prices.
C18_InterpolationToTheCent ==
    (InterpDone /\ PricedSamples # {}) =>
        /\ \A row \in FilledRows : FilledAsClaimed(row, 1)
        /\ InterpExample

\* C18 witness: the worked example has been computed.
C18_Witness ==
    /\ InterpDone
    /\ {<<s.date, s.median_price>> : s \in PricedSamples}
           = {<<fx.start + 1, 10000>>, <<fx.start + 11, 20000>>}
    /\ fx.out[7].median_price = 15000
    /\ fx.out[7].flags = {"interpolated"}
    /\ fx.out[1].median_price = 10000
    /\ fx.out[17].median_price = 20000

\* C19: for a non-empty list of values whose weights are all equal and
\* positive, of odd or even length, the weighted median is the standard
\* median: the middle value in ascending order, or the mean of the two
\* middle values.
C19_EqualWeightsMedian ==
    (/\ fx.fn = "_weighted_median" /\ fx.phase = "out"
     /\ Len(fx.values) >= 1
     /\ \A i \in 1..Len(fx.weights) :
           fx.weights[i] = fx.weights[1] /\ fx.weights[i] > 0)
    => LET n == Len(fx.values)
           below(v) == Cardinality({k \in 1..n : fx.values[k] < v})
           upTo(v) == Cardinality({k \in 1..n : fx.values[k] <= v})
           nth(r) == CHOOSE v \in {fx.values[k] : k \in 1..n} :
                        below(v) < r /\ r <= upTo(v)
       IN IF n % 2 = 1
          THEN fx.out = nth((n + 1) \div 2)
          ELSE 2 * fx.out = nth(n \div 2) + nth(n \div 2 + 1)

\* C20: the time multiplier is a step function of daysAway = target - today,
\* zero and negative values included: above 30 it is 1.00, in (14, 30] 0.97,
\* in (7, 14] 0.92, in (3, 7] 0.85 and 0.75 otherwise; pricing the same night
\* a day later never gives a larger multiplier.
C20_TimeMultiplierSteps ==
    [][(fx'.fn = "compute_time_multiplier" /\ fx'.phase = "out") =>
         LET d == fx'.target - fx'.today
         IN /\ d > 30 => fx'.out = 100
            /\ (14 < d /\ d <= 30) => fx'.out = 97
            /\ (7 < d /\ d <= 14) => fx'.out = 92
            /\ (3 < d /\ d <= 7) => fx'.out = 85
            /\ d <= 3 => fx'.out = 75
            /\ (fx.phase = "out" /\ fx'.target = fx.target
                                 /\ fx'.today > fx.today)
                  => fx'.out <= fx.out]_vars

\* C20 witness: a night first priced at least four days ahead is priced
\* again after it has passed, at 0.75.
C20_Witness ==
    /\ fx.fn = "compute_time_multiplier" /\ fx.phase = "out"
    /\ fx.target - fx.today < 0
    /\ fx.passed >= 5
    /\ fx.out = 75

\* ---- dynamic pricing ------------------------------------------------------

DynamicDone ==
    fx.phase = "out" /\ fx.fn = "compute_dynamic_pricing_adjustment"

DemandDone == fx.phase = "out" /\ fx.fn = "compute_market_demand_v2"

\* C21: for every day, today and demand score (also outside [0,1]),
\* demandAdjustment lies in [0.90, 1.05] and finalMultiplier in [0.65, 1.05],
\* also for days without a base price and for the value returned by
\* compute_last_minute_multiplier.
C21_MultipliersInRange ==
    /\ DynamicDone =>
          \A i \in DOMAIN fx.out :
             /\ fx.out[i].demandAdjustment \in 900..1050
             /\ fx.out[i].finalMultiplier \in 650..1050
    /\ (fx.phase = "out" /\ fx.fn = "compute_demand_adjustment") =>
          fx.out \in 900..1050
    /\ (fx.phase = "out" /\ fx.fn = "compute_last_minute_multiplier") =>
          fx.out \in 650..1050

\* C21 witness: an adjusted calendar holds a day without a base price whose
\* final multiplier is below 1.
C21_Witness ==
    /\ DynamicDone
    /\ \E i \in DOMAIN fx.out :
          /\ fx.out[i].baseDailyPrice = NoPrice
          /\ fx.out[i].finalMultiplier < 1000

\* C22: compute_dynamic_pricing_adjustment returns one row per input day in
\* input order; a day without a base price carries missing_data and has no
\* priceAfterTimeAdjustment; a day with one has round(base x finalMultiplier)
\* and is tagged last_minute_discount whenever finalMultiplier < 1.
C22_AdjustedRows ==
    DynamicDone =>
       /\ Len(fx.out) = Len(fx.days)
       /\ \A i \in DOMAIN fx.days :
             LET day == fx.days[i]
                 row == fx.out[i]
             IN /\ row.date = day.date
                /\ day.baseDailyPrice = NoPrice =>
                      /\ "missing_data" \in row.flags
                      /\ row.priceAfterTimeAdjustment = NoPrice
                /\ day.baseDailyPrice /= NoPrice =>
                      /\ row.priceAfterTimeAdjustment =
                            RoundDiv(day.baseDailyPrice * row.finalMultiplier,
                                     1000)
                      /\ row.finalMultiplier < 1000 =>
                            "last_minute_discount" \in row.flags

\* C22 witness: one adjusted calendar holds a day without a base price that
\* came in without the missing_data flag and a priced day whose demand
\* adjustment is not 1 and whose final multiplier is below 1.
C22_Witness ==
    /\ DynamicDone
    /\ \E i, j \in DOMAIN fx.out :
          /\ fx.days[i].baseDailyPrice = NoPrice
          /\ "missing_data" \notin fx.days[i].flags
          /\ fx.days[j].baseDailyPrice /= NoPrice
          /\ fx.out[j].demandAdjustment /= 1000
          /\ fx.out[j].finalMultiplier < 1000

\* C23: compute_market_demand_v2 returns one row per input day; confidence is
\* high when compsUsed >= 25 and the day has a median, medium when
\* compsUsed >= 12 otherwise, low in every other case with a low-comps reason
\* appended; every row has a reason and a demandScore in [0,1].
C23_DemandRows ==
    DemandDone =>
       /\ Len(fx.out) = Len(fx.days)
       /\ \A i \in DOMAIN fx.days :
             LET day == fx.days[i]
                 row == fx.out[i]
                 high == day.compsUsed >= 25 /\ day.median /= NoPrice
                 medium == ~high /\ day.compsUsed >= 12
             IN /\ row.date = day.date
                /\ high => row.confidence = "high"
                /\ medium => row.confidence = "medium"
                /\ (~high /\ ~medium) =>
                      /\ row.confidence = "low"
                      /\ row.reasons[Len(row.reasons)] = "low_comps"
                /\ Len(row.reasons) >= 1
                /\ row.demandScore \in 0..1000

\* C23 witness: a demand calendar holds a day with 25 or more comps and no
\* median, rated medium, next to a low day.
C23_Witness ==
    /\ DemandDone
    /\ \E i, j \in DOMAIN fx.out :
          /\ fx.days[i].compsUsed >= 25
          /\ fx.days[i].median = NoPrice
          /\ fx.out[i].confidence = "medium"
          /\ fx.out[j].confidence = "low"

\* ---- filter stage of the result -------------------------------------------

\* every night of the pass collected at least 14 comps and reached strict
AllNightsStrict ==
    /\ fx.phase = "out" /\ fx.fn = "run_scrape"
    /\ \A i \in DOMAIN fx.profiles :
          /\ fx.profiles[i].total >= 14
          /\ FilterSimilarCandidates(fx.profiles[i].total,
                 fx.profiles[i].strict, fx.profiles[i].medium).stage = "strict"

\* C24: for a 10-night job in which every night collects at least 14 comps
\* and reaches the strict tier, compsSummary.filterStage is one of strict,
\* medium, fallback_all, and the calendar has exactly 10 rows with no gaps.
C24_FilterStageAndCalendar ==
    (AllNightsStrict /\ Len(fx.profiles) = 10) =>
       /\ fx.out.compsSummary.filterStage
             \in {"strict", "medium", "fallback_all"}
       /\ Len(fx.out.calendar) = 10
       /\ \A i \in 1..10 : fx.out.calendar[i].date = fx.checkin + i - 1

\* ---- retries, runtime check and interpolated rows of a scrape pass --------

\* the query loop of the pass has been entered
InPass == dq.phase \in {"loop", "stopped", "done"}

\* the sampled results of the pass that carry no price
FailedNights ==
    {dq.sampled[k].date :
        k \in {i \in 1..Len(dq.sampled) : dq.sampled[i].median_price = NoPrice}}

\* the retry discipline of the night queried last, and what becomes of the
\* nights that failed every attempt
RetryDiscipline ==
    /\ Len(dq.sampled) = dq.pos - 1
    /\ Len(dq.sampled) >= 1 =>
          LET last == dq.sampled[Len(dq.sampled)]
          IN /\ Len(dq.tries) \in 1..PER_DAY_MAX_RETRIES
             /\ \A k \in 2..Len(dq.tries) : ~dq.tries[k - 1]
             /\ (last.median_price /= NoPrice) = dq.tries[Len(dq.tries)]
             /\ last.median_price = NoPrice =>
                   /\ Len(dq.tries) = PER_DAY_MAX_RETRIES
                   /\ "missing_data" \in last.flags
    /\ dq.phase = "done" =>
          \A i \in 1..Len(dq.results) :
             dq.results[i].date \in FailedNights =>
                "missing_data" \in dq.results[i].flags

\* C25 as stated: within one scrape pass each selected night is queried at
\* least once and at most PER_DAY_MAX_RETRIES times, a second attempt only
\* after a first without a price; a night that fails every attempt is
\* recorded with missing_data and the loop goes on to the next night.
C25_EverySelectedNightQueried ==
    InPass =>
       /\ RetryDiscipline
       /\ dq.phase = "done" => Len(dq.sampled) = Len(dq.indices)

\* C25 amended: the same for each selected night that the loop reaches
\* before the runtime check stops it.
C25_EveryReachedNightQueried ==
    InPass =>
       /\ RetryDiscipline
       /\ (dq.phase = "loop" /\ dq.pos > Len(dq.indices)) =>
             Len(dq.sampled) = Len(dq.indices)

\* C25 witness: a finished pass in which a night failed both attempts, a
\* later night was queried, and the row of the failed night has a price.
C25_Witness ==
    /\ dq.phase = "done"
    /\ \E k \in 1..Len(dq.sampled) :
          /\ dq.sampled[k].median_price = NoPrice
          /\ k < Len(dq.sampled)
          /\ \E i \in 1..Len(dq.results) :
                /\ dq.results[i].date = dq.sampled[k].date
                /\ dq.results[i].median_price /= NoPrice
                /\ "missing_data" \in dq.results[i].flags

\* C26: the remaining time is checked before each night's query; once fewer
\* than 15 seconds remain no new query is issued, the loop ends, and every
\* night that was not queried still gets a row through interpolation.
C26_TimeoutStopsQueries ==
    [][/\ Len(dq'.sampled) > Len(dq.sampled) => dq.remaining >= 15
       /\ (dq.phase = "loop" /\ dq.pos <= Len(dq.indices)
             /\ dq.remaining < 15) =>
             (dq'.phase = "stopped" /\ dq'.sampled = dq.sampled)
       /\ dq.phase = "stopped" =>
             (dq'.phase = "done" /\ dq'.sampled = dq.sampled)
       /\ dq'.phase = "done" =>
             /\ Len(dq'.results) = dq'.checkout - dq'.checkin
             /\ \A i \in 1..Len(dq'.results) :
                   /\ dq'.results[i].date = dq'.checkin + i - 1
                   /\ dq'.results[i].date \notin SampledDates(dq'.sampled) =>
                         /\ ~dq'.results[i].is_sampled
                         /\ dq'.results[i].filter_stage
                               \in {"interpolated", "no_data"}]_vars

\* C26 witness: a pass stopped by the runtime check after some queries, whose
\* unqueried selected nights have interpolated rows.
C26_Witness ==
    /\ dq.phase = "done"
    /\ dq.remaining < 15
    /\ Len(dq.sampled) >= 1
    /\ Len(dq.sampled) < Len(dq.indices)
    /\ \E i \in 1..Len(dq.results) :
          /\ dq.results[i].date \notin SampledDates(dq.sampled)
          /\ dq.results[i].date =
                dq.checkin + dq.indices[Len(dq.sampled) + 1]
          /\ "interpolated" \in dq.results[i].flags

\* C29: after interpolation either every night has a price or none has; as
\* soon as one sampled night yields a price, sampledDays + interpolatedDays =
\* totalNights and missingDays = 0; a night is flagged interpolated only if
\* it has a price and is_sampled is false; a night without a price carries
\* missing_data.
C29_AllOrNothing ==
    dq.phase = "done" =>
       LET rows == dq.results
           summary == CompsSummary(rows)
           priced == {i \in 1..Len(rows) : rows[i].median_price /= NoPrice}
       IN /\ priced = {} \/ priced = 1..Len(rows)
          /\ ValidDates(dq.sampled) /= {} =>
                /\ priced = 1..Len(rows)
                /\ summary.sampledDays + summary.interpolatedDays = TotalNights
                /\ summary.missingDays = 0
          /\ \A i \in 1..Len(rows) :
                /\ "interpolated" \in rows[i].flags =>
                      (rows[i].median_price /= NoPrice /\ ~rows[i].is_sampled)
                /\ rows[i].median_price = NoPrice =>
                      "missing_data" \in rows[i].flags

\* C29 witness: a finished pass over more nights than are sampled, stopped by
\* the runtime check, with a failed night before the first priced one.
C29_Witness ==
    /\ dq.phase = "done"
    /\ TotalNights > SAMPLE_THRESHOLD
    /\ Len(dq.sampled) < Len(dq.indices)
    /\ Len(dq.sampled) >= 2
    /\ dq.sampled[1].median_price = NoPrice
    /\ ValidDates(dq.sampled) /= {}
    /\ CompsSummary(dq.results).interpolatedDays > 0

\* ---- lost lease -----------------------------------------------------------

\* the heartbeat thread of worker w ended on a rejected token: it is done
\* while process_job has not set the stop event
LeaseLost(w) ==
    /\ hb[w].state = "done"
    /\ ~hb[w].stop
    /\ hb[w].job = cur[w].job
    /\ hb[w].token = cur[w].token

\* C27: when the store reports on a heartbeat that the claim token no longer
\* matches, the heartbeat task sends no further heartbeat and the worker
\* abandons the job locally: it makes no further cache lookup, query or
\* terminal write for it.
C27_LeaseLostAbandons ==
    [][\A w \in Workers :
          LeaseLost(w) =>
             /\ ~(lastOp'.kind = "heartbeat" /\ lastOp'.token = hb[w].token)
             /\ run'[w].lookups = run[w].lookups
             /\ run'[w].queries = run[w].queries
             /\ run'[w].termWrites = run[w].termWrites]_vars

\* ---- build_stay_length_averages -------------------------------------------

\* C28: build_stay_length_averages returns one entry per stay length of
\* {1, totalDays, 7 if totalDays >= 7, 28 if totalDays >= 28}, de-duplicated
\* and ascending, none when totalDays < 1; each entry's lengthDiscountPct is
\* the length discount actually applied to the refundable prices averaged in
\* its avgNightly.
C28_StayLengthAverages ==
    (fx.phase = "out" /\ fx.fn = "build_stay_length_averages") =>
       LET expected == IF fx.totalDays < 1 THEN {}
                       ELSE {1, fx.totalDays}
                               \cup {s \in {7, 28} : fx.totalDays >= s}
       IN /\ {fx.out[i].stayLength : i \in DOMAIN fx.out} = expected
          /\ Len(fx.out) = Cardinality(expected)
          /\ \A i \in DOMAIN fx.out :
                /\ i > 1 => fx.out[i - 1].stayLength < fx.out[i].stayLength
                /\ Frac(fx.out[i].lengthDiscountPct) =
                      ApplyDiscount(0, fx.out[i].stayLength,
                                    fx.policy).refundableDiscount
                /\ fx.out[i].avgNightly =
                      AverageRefundablePriceForStay(fx.basePrices,
                          fx.out[i].stayLength, fx.policy)

\* ---- cache writes of process_job ------------------------------------------

\* C30: within process_job the cache is written only after complete_job has
\* been issued for a freshly computed result; every path that fails the job
\* and the cache-hit path return without writing the cache, so a failed run
\* never creates or refreshes a cache entry.
C30_CacheWrittenOnlyAfterComplete ==
    [][/\ \A k \in Jobs :
             (cache'[k] /= cache[k] /\ cache'[k].state = "valid") =>
                (lastOp'.kind = "complete_job" /\ lastOp'.job = k)
       /\ \A w \in Workers :
             /\ run'[w].cacheWrites > run[w].cacheWrites =>
                   /\ lastOp'.kind = "complete_job"
                   /\ ~run[w].cacheHit
                   /\ run[w].result = "priced"
             /\ (pc[w] \in {"fail", "except", "cache_complete"}
                   /\ pc'[w] /= pc[w]) =>
                   (cache' = cache /\ run'[w].cacheWrites = 0)
       /\ lastOp'.kind = "fail_job" => cache' = cache]_vars

\* C30 witness: a run that computed a fresh result has failed the job through
\* fail_job and left the cache without an entry for it.
C30_Witness ==
    \E w \in Workers :
       /\ pc[w] = "finally"
       /\ lastOp.kind = "fail_job"
       /\ lastOp.job = cur[w].job
       /\ run[w].result = "priced"
       /\ run[w].cacheWrites = 0
       /\ cache[CacheKey(cur[w].job)] = NoEntry

====
